---- MODULE Spec2Model ----
(***************************************************************************)
(* Verification model of electrum/asset.py: the asset name grammar         *)
(* validator, the asset script encoder and decoder, and the verifier       *)
(* expression engine.                                                      *)
(*                                                                         *)
(* Conventions.  A Python str is a sequence of code points (integers); a   *)
(* Python bytes object, and the hex text that denotes it, is a sequence of *)
(* integers 0..255.  Python None is the string "None".  A call that raises *)
(* is a record [raised |-> <exception class name>].  Integers wider than   *)
(* 31 bits (asset amounts, timestamps) are kept as four 16-bit words,      *)
(* least significant first, so that the 8-byte width is preserved.         *)
(***************************************************************************)
EXTENDS Integers, Sequences, FiniteSets, TLC

VARIABLES pc, asset, asset_type, error, args, script, info, verifier, ast, bool_dict, value

vars == <<pc, asset, asset_type, error, args, script, info, verifier, ast, bool_dict, value>>

None == "None"

(***************************************************************************)
(* Characters                                                              *)
(***************************************************************************)
AsciiPrintable ==
    << " ", "!", "\"", "#", "$", "%", "&", "'", "(", ")", "*", "+", ",", "-", ".", "/",
       "0", "1", "2", "3", "4", "5", "6", "7", "8", "9", ":", ";", "<", "=", ">", "?",
       "@", "A", "B", "C", "D", "E", "F", "G", "H", "I", "J", "K", "L", "M", "N", "O",
       "P", "Q", "R", "S", "T", "U", "V", "W", "X", "Y", "Z", "[", "\\", "]", "^", "_",
       "<grave>", "a", "b", "c", "d", "e", "f", "g", "h", "i", "j", "k", "l", "m", "n", "o",
       "p", "q", "r", "s", "t", "u", "v", "w", "x", "y", "z", "{", "|", "}", "~" >>

\* ord(c) of a one-character literal
Ord(c) == IF c = "\n" THEN 10 ELSE 31 + (CHOOSE i \in 1..95 : AsciiPrintable[i] = c)

\* the str written as the tuple of its characters
Str(t) == [i \in 1..Len(t) |-> Ord(t[i])]

NL == 10

UpperChars == 65..90
LowerChars == 97..122
DigitChars == 48..57
PunctChars == {Ord("."), Ord("_")}

\* [A-Z0-9._]
NameChars == UpperChars \cup DigitChars \cup PunctChars

\* [-A-Za-z0-9@$%&*()[\]{}_.?:]
UniqueTagChars ==
    UpperChars \cup LowerChars \cup DigitChars \cup
    { Ord("-"), Ord("@"), Ord("$"), Ord("%"), Ord("&"), Ord("*"), Ord("("), Ord(")"),
      Ord("["), Ord("]"), Ord("{"), Ord("}"), Ord("_"), Ord("."), Ord("?"), Ord(":") }

\* [A-Za-z0-9_]
MsgChannelTagChars == UpperChars \cup LowerChars \cup DigitChars \cup {Ord("_")}

(***************************************************************************)
(* Sequence helpers (Python str / list primitives)                         *)
(***************************************************************************)
Range(s) == {s[i] : i \in DOMAIN s}

\* s[a:b] with 0-based, already clamped, half-open bounds
Slice(s, a, b) == IF b <= a THEN <<>> ELSE SubSeq(s, a + 1, b)

\* d in s
Contains(s, d) == d \in Range(s)

\* s[:-1]
DropLast(s) == IF Len(s) = 0 THEN <<>> ELSE SubSeq(s, 1, Len(s) - 1)

\* index (1-based) of the first d in s, 0 when absent
FirstIndex(s, d) == IF Contains(s, d) THEN CHOOSE i \in DOMAIN s : s[i] = d /\ \A j \in 1..(i - 1) : s[j] # d ELSE 0

RECURSIVE Split(_, _)
\* s.split(d) for a one-character delimiter d
Split(s, d) ==
    LET k == FirstIndex(s, d)
    IN  IF k = 0 THEN <<s>>
        ELSE <<SubSeq(s, 1, k - 1)>> \o Split(SubSeq(s, k + 1, Len(s)), d)

\* the texts against which a pattern that ends in $ may match in full:
\* $ matches at the end and just before a final newline
DollarForms(s) ==
    {s} \cup (IF Len(s) > 0 /\ s[Len(s)] = NL THEN {DropLast(s)} ELSE {})

\* a dot of a pattern matches every character but the newline
NoNewline(s) == ~Contains(s, NL)

(***************************************************************************)
(* Name grammar: patterns                                                  *)
(***************************************************************************)
MAX_NAME_LENGTH == 32
MAX_CHANNEL_NAME_LENGTH == 12
MIN_ASSET_LENGTH == 3
MAX_VERIFIER_STING_LENGTH == 75

_SUB_NAME_DELIMITER == Ord("/")
_UNIQUE_TAG_DELIMITER == Ord("#")
_MSG_CHANNEL_DELIMITER == Ord("~")
ASSET_OWNER_IDENTIFIER == Ord("!")

\* re.match(r'^[A-Z0-9._]{3,}$', s)
_ROOT_NAME_CHARACTERS(s) ==
    \E t \in DollarForms(s) : Len(t) >= 3 /\ Range(t) \subseteq NameChars

\* variant of _SUB_NAME_CHARACTERS that demands two characters, as the root
\* pattern demands three
_SUB_NAME_CHARACTERS_two(s) ==
    \E t \in DollarForms(s) : Len(t) >= 2 /\ Range(t) \subseteq NameChars

\* re.match(r'^[A-Z0-9._]+$', s)
_SUB_NAME_CHARACTERS(s) ==
    \E t \in DollarForms(s) : Len(t) >= 1 /\ Range(t) \subseteq NameChars

\* re.match(r'^[-A-Za-z0-9@$%&*()[\]{}_.?:]+$', s)
_UNIQUE_TAG_CHARACTERS(s) ==
    \E t \in DollarForms(s) : Len(t) >= 1 /\ Range(t) \subseteq UniqueTagChars

\* re.match(r'^[A-Za-z0-9_]+$', s)
_MSG_CHANNEL_TAG_CHARACTERS(s) ==
    \E t \in DollarForms(s) : Len(t) >= 1 /\ Range(t) \subseteq MsgChannelTagChars

\* re.match(r'#[A-Z0-9._]{3,}$', s)
_QUALIFIER_NAME_CHARACTERS(s) ==
    \E t \in DollarForms(s) :
        /\ Len(t) >= 4
        /\ t[1] = Ord("#")
        /\ Range(SubSeq(t, 2, Len(t))) \subseteq NameChars

\* re.match(r'#[A-Z0-9._]+$', s)
_SUB_QUALIFIER_NAME_CHARACTERS(s) ==
    \E t \in DollarForms(s) :
        /\ Len(t) >= 2
        /\ t[1] = Ord("#")
        /\ Range(SubSeq(t, 2, Len(t))) \subseteq NameChars

\* re.match(r'\$[A-Z0-9._]{3,}$', s)
_RESTRICTED_NAME_CHARACTERS(s) ==
    \E t \in DollarForms(s) :
        /\ Len(t) >= 4
        /\ t[1] = Ord("$")
        /\ Range(SubSeq(t, 2, Len(t))) \subseteq NameChars

\* re.match(r'^.*[._]{2,}.*$', s)
_DOUBLE_PUNCTUATION(s) ==
    \E t \in DollarForms(s) :
        /\ NoNewline(t)
        /\ \E i \in 1..(Len(t) - 1) : t[i] \in PunctChars /\ t[i + 1] \in PunctChars

\* re.match(r'^[._].*$', s)
_LEADING_PUNCTUATION(s) ==
    \E t \in DollarForms(s) : Len(t) >= 1 /\ NoNewline(t) /\ t[1] \in PunctChars

\* re.match(r'^.*[._]$', s)
_TRAILING_PUNCTUATION(s) ==
    \E t \in DollarForms(s) : Len(t) >= 1 /\ NoNewline(t) /\ t[Len(t)] \in PunctChars

\* re.match(r'^[#\$][._].*$', s)
_QUALIFIER_LEADING_PUNCTUATION(s) ==
    \E t \in DollarForms(s) :
        /\ Len(t) >= 2
        /\ NoNewline(t)
        /\ t[1] \in {Ord("#"), Ord("$")}
        /\ t[2] \in PunctChars

ReservedWords ==
    { Str(<<"R","V","N">>), Str(<<"R","A","V","E","N">>),
      Str(<<"R","A","V","E","N","C","O","I","N">>),
      Str(<<"R","V","N","S">>), Str(<<"R","A","V","E","N","S">>),
      Str(<<"R","A","V","E","N","C","O","I","N","S">>) }

BadNameMatch(t) == t \in ReservedWords \cup {<<Ord("#")>> \o w : w \in ReservedWords}

\* re.match('^RVN$|^RAVEN$|...|^#RVN$|...|^#RAVENCOINS$', s)
_BAD_NAMES(s) ==
    \E t \in DollarForms(s) : BadNameMatch(t)

\* [^^~#!]
IndicatorHeadChar(c) == c \notin {Ord("^"), Ord("~"), Ord("#"), Ord("!")}
\* [^~#!\/]
IndicatorTailChar(c) == c \notin {Ord("~"), Ord("#"), Ord("!"), Ord("/")}

\* ^[^^~#!]+ d [^~#!\/]+$ for the delimiter d, which neither class contains
TaggedIndicator(s, d) ==
    \E t \in DollarForms(s) :
        LET k == FirstIndex(t, d)
        IN  /\ k >= 2
            /\ k < Len(t)
            /\ \A i \in 1..(k - 1) : IndicatorHeadChar(t[i])
            /\ \A i \in (k + 1)..Len(t) : IndicatorTailChar(t[i])

\* re.match(r'(^[^^~#!]+#[^~#!\/]+$)', s)
_UNIQUE_INDICATOR(s) == TaggedIndicator(s, Ord("#"))

\* re.match(r'(^[^^~#!]+~[^~#!\/]+$)', s)
_MSG_CHANNEL_INDICATOR(s) == TaggedIndicator(s, Ord("~"))

\* re.match(r'(^[^^~#!]+!$)', s)
_OWNER_INDICATOR(s) ==
    \E t \in DollarForms(s) :
        /\ Len(t) >= 2
        /\ t[Len(t)] = Ord("!")
        /\ \A i \in 1..(Len(t) - 1) : IndicatorHeadChar(t[i])

\* variant of _QUALIFIER_INDICATOR that takes '$' for a marker as well
_QUALIFIER_INDICATOR_dollar(s) ==
    \E t \in DollarForms(s) :
        /\ Len(t) >= 4
        /\ t[1] \in {Ord("#"), Ord("$")}
        /\ \A i \in 2..Len(t) : t[i] \in NameChars

\* re.match(r'^[#][A-Z0-9._]{3,}$', s)
_QUALIFIER_INDICATOR(s) ==
    \E t \in DollarForms(s) :
        /\ Len(t) >= 4
        /\ t[1] = Ord("#")
        /\ \A i \in 2..Len(t) : t[i] \in NameChars

\* re.match(r'^#[A-Z0-9._]+\/#[A-Z0-9._]+$', s)
_SUB_QUALIFIER_INDICATOR(s) ==
    \E t \in DollarForms(s) :
        LET k == FirstIndex(t, Ord("/"))
        IN  /\ k >= 3
            /\ k + 2 <= Len(t)
            /\ t[1] = Ord("#")
            /\ \A i \in 2..(k - 1) : t[i] \in NameChars
            /\ t[k + 1] = Ord("#")
            /\ \A i \in (k + 2)..Len(t) : t[i] \in NameChars

\* re.match(r'^[\$][A-Z0-9._]{3,}$', s)
_RESTRICTED_INDICATOR(s) ==
    \E t \in DollarForms(s) :
        /\ Len(t) >= 4
        /\ t[1] = Ord("$")
        /\ \A i \in 2..Len(t) : t[i] \in NameChars

(***************************************************************************)
(* Name grammar: validators                                                *)
(***************************************************************************)
_isRootNameValid(symbol) ==
    /\ _ROOT_NAME_CHARACTERS(symbol)
    /\ ~(\/ _DOUBLE_PUNCTUATION(symbol)
         \/ _LEADING_PUNCTUATION(symbol)
         \/ _TRAILING_PUNCTUATION(symbol)
         \/ _BAD_NAMES(symbol))

_isQualifierNameValid(symbol) ==
    /\ _QUALIFIER_NAME_CHARACTERS(symbol)
    /\ ~(\/ _DOUBLE_PUNCTUATION(symbol)
         \/ _QUALIFIER_LEADING_PUNCTUATION(symbol)
         \/ _TRAILING_PUNCTUATION(symbol)
         \/ _BAD_NAMES(symbol))

_isRestrictedNameValid(symbol) ==
    /\ _RESTRICTED_NAME_CHARACTERS(symbol)
    /\ ~(\/ _DOUBLE_PUNCTUATION(symbol)
         \/ _LEADING_PUNCTUATION(symbol)
         \/ _TRAILING_PUNCTUATION(symbol)
         \/ _BAD_NAMES(symbol))

_isSubQualifierNameValid(symbol) ==
    /\ _SUB_QUALIFIER_NAME_CHARACTERS(symbol)
    /\ ~(\/ _DOUBLE_PUNCTUATION(symbol)
         \/ _LEADING_PUNCTUATION(symbol)
         \/ _TRAILING_PUNCTUATION(symbol))

_isSubNameValid(symbol) ==
    /\ _SUB_NAME_CHARACTERS(symbol)
    /\ ~(\/ _DOUBLE_PUNCTUATION(symbol)
         \/ _LEADING_PUNCTUATION(symbol)
         \/ _TRAILING_PUNCTUATION(symbol))

_isUniqueTagValid(symbol) == _UNIQUE_TAG_CHARACTERS(symbol)

_isMsgChannelTagValid(symbol) ==
    /\ _MSG_CHANNEL_TAG_CHARACTERS(symbol)
    /\ ~(\/ _DOUBLE_PUNCTUATION(symbol)
         \/ _LEADING_PUNCTUATION(symbol)
         \/ _TRAILING_PUNCTUATION(symbol))

_isNameValidBeforeTag(symbol) ==
    LET parts == Split(symbol, _SUB_NAME_DELIMITER)
    IN  \A i \in 1..Len(parts) :
            IF i = 1 THEN _isRootNameValid(parts[i]) ELSE _isSubNameValid(parts[i])

_isQualifierNameValidBeforeTag(symbol) ==
    LET parts == Split(symbol, _SUB_NAME_DELIMITER)
    IN  /\ _isQualifierNameValid(parts[1])
        /\ ~(Len(parts) > 2)
        /\ \A i \in 2..Len(parts) : _isSubQualifierNameValid(parts[i])

\* variant of _isAssetNameASubAsset that does not look at the root segment
_isAssetNameASubAsset_anyhead(a) ==
    Len(Split(a, _SUB_NAME_DELIMITER)) > 1

_isAssetNameASubAsset(a) ==
    LET parts == Split(a, _SUB_NAME_DELIMITER)
    IN  _isRootNameValid(parts[1]) /\ Len(parts) > 1

AssetType ==
    {"ROOT", "SUB", "MSG_CHANNEL", "OWNER", "UNIQUE", "QUALIFIER", "SUB_QUALIFIER", "RESTRICTED"}

get_error_for_asset_typed(a, t) ==
    IF t = "SUB" /\ ~Contains(a, _SUB_NAME_DELIMITER) THEN "Not a sub asset."
    ELSE IF t = "ROOT" /\ Contains(a, _SUB_NAME_DELIMITER) THEN "Not a root asset."
    ELSE IF t = "ROOT" \/ t = "SUB" THEN
        IF Len(a) > MAX_NAME_LENGTH - 1 THEN "Name is greater than max length of 31."
        ELSE IF ~_isAssetNameASubAsset(a) /\ Len(a) < MIN_ASSET_LENGTH
            THEN "Name must contain at least 3 characters."
        ELSE IF ~_isNameValidBeforeTag(a) /\ _isAssetNameASubAsset(a) /\ Len(a) < MIN_ASSET_LENGTH
            THEN "Name must have at least 3 characters (Valid characters are: A-Z 0-9 _ .)"
        ELSE IF ~_isNameValidBeforeTag(a)
            THEN "Name contains invalid characters"
        ELSE None
    ELSE IF Len(a) > MAX_NAME_LENGTH THEN "Name is greater than max length of 32."
    ELSE IF t = "UNIQUE" THEN
        LET parts == Split(a, _UNIQUE_TAG_DELIMITER)
        IN  IF Len(parts) = 1 THEN "Not a unique tag."
            ELSE IF ~_isNameValidBeforeTag(parts[1]) \/ ~_isUniqueTagValid(parts[Len(parts)])
                THEN "Unique name contains invalid characters"
            ELSE None
    ELSE IF t = "MSG_CHANNEL" THEN
        LET parts == Split(a, _MSG_CHANNEL_DELIMITER)
        IN  IF Len(parts) = 1 THEN "Not a message channel."
            ELSE IF Len(parts[Len(parts)]) > MAX_CHANNEL_NAME_LENGTH
                THEN "Channel name is greater than max length of 12."
            ELSE IF ~_isNameValidBeforeTag(parts[1]) \/ ~_isMsgChannelTagValid(parts[Len(parts)])
                THEN "Message Channel name contains invalid characters"
            ELSE None
    ELSE IF t = "OWNER" THEN
        IF ~_isNameValidBeforeTag(DropLast(a))
            THEN "Owner name contains invalid characters"
        ELSE None
    ELSE IF t = "QUALIFIER" \/ t = "SUB_QUALIFIER" THEN
        IF t = "QUALIFIER" /\ Contains(a, _SUB_NAME_DELIMITER) THEN "Not a qualifier"
        ELSE IF t = "SUB_QUALIFIER" /\ ~Contains(a, _SUB_NAME_DELIMITER) THEN "Not a sub qualifier"
        ELSE IF Len(a) < 4 THEN "Name must contain at least 3 characters."
        ELSE IF ~_isQualifierNameValidBeforeTag(a)
            THEN "Qualifier name contains invalid characters"
        ELSE None
    ELSE IF t = "RESTRICTED" THEN
        IF ~_isRestrictedNameValid(a)
            THEN "Restricted name contains invalid characters"
        ELSE None
    ELSE "Unknown asset type."

\* the taxonomy under which get_error_for_asset_name validates a name of
\* at most 40 characters
asset_type_for_name(a) ==
    IF _UNIQUE_INDICATOR(a) THEN "UNIQUE"
    ELSE IF _MSG_CHANNEL_INDICATOR(a) THEN "MSG_CHANNEL"
    ELSE IF _OWNER_INDICATOR(a) THEN "OWNER"
    ELSE IF _QUALIFIER_INDICATOR(a) THEN "QUALIFIER"
    ELSE IF _SUB_QUALIFIER_INDICATOR(a) THEN "SUB_QUALIFIER"
    ELSE IF _RESTRICTED_INDICATOR(a) THEN "RESTRICTED"
    ELSE IF _isAssetNameASubAsset(a) THEN "SUB"
    ELSE "ROOT"

MAX_ASSET_LENGTH == 40

get_error_for_asset_name(a) ==
    IF Len(a) > MAX_ASSET_LENGTH THEN "Asset is too long"
    ELSE get_error_for_asset_typed(a, asset_type_for_name(a))

(***************************************************************************)
(* Inputs of the name validator                                            *)
(***************************************************************************)
MaxNameLen == 4

\* all sequences over A of length at most n
StringsUpTo(A, n) == UNION {[1..k -> A] : k \in 0..n}

NameAlphabet == {Ord("A"), Ord("."), Ord("/"), Ord("#"), Ord("$"), Ord("!"), Ord("~")}

\* n copies of the character c
Repeat(c, n) == [i \in 1..n |-> c]

NameSamples ==
    ReservedWords
    \cup {<<Ord("#")>> \o w : w \in ReservedWords}
    \cup {<<Ord("$")>> \o w : w \in ReservedWords}
    \cup {w \o <<Ord("!")>> : w \in ReservedWords}
    \cup { Str(<<"F","O","O">>), Str(<<"A","B","C","/","D">>), Str(<<"A","B","C","/","D","/","9">>),
           Str(<<"A","B","C","/","D","E","/","F">>), Str(<<"A","B","C","/","_">>),
           Str(<<"A","B","/","C","D","E">>), Str(<<"R","V","N","/","A">>),
           Str(<<"A","B","C","#","t","a","g">>), Str(<<"A","B","C","/","D","#","x">>),
           Str(<<"A","B","C","~","c","h","a","n">>), Str(<<"A","B","C","!">>),
           Str(<<"A","B","C","/","D","!">>), Str(<<"#","A","B","C">>), Str(<<"#","A","B","C","/","#","D">>),
           Str(<<"$","A","B","C">>), Str(<<"$","A",".","B">>), Str(<<"$",".","A","B">>),
           Str(<<"#","A","_","B">>), Str(<<"A","B","C","\n">>), Str(<<"A","B","\n">>),
           Str(<<"^","A","B","#","x">>), Str(<<"a","b","c">>), Str(<<"A","1","_","B">>),
           Repeat(Ord("A"), 29) \o Str(<<"/","B">>), Repeat(Ord("A"), 30) \o Str(<<"/","B">>),
           Repeat(Ord("A"), 31), Repeat(Ord("A"), 32),
           Str(<<"#">>) \o Repeat(Ord("A"), 31), Str(<<"#">>) \o Repeat(Ord("A"), 32),
           Repeat(Ord("A"), 31) \o Str(<<"#","t">>), Repeat(Ord("A"), 40),
           Repeat(Ord("A"), 41), Repeat(Ord("A"), 3) \o Repeat(Ord("#"), 38),
           Str(<<"$">>) \o Repeat(Ord("B"), 40), Repeat(Ord("A"), 40) \o Str(<<"!">>),
           Str(<<"A","B","C","#">>) \o Repeat(Ord("t"), 28),
           Str(<<"A","B","C","#">>) \o Repeat(Ord("t"), 29),
           Str(<<"A","B","C","/","D","#">>) \o Repeat(Ord("t"), 34),
           Str(<<"A","B","C","#">>) \o Repeat(Ord("t"), 37),
           Str(<<"#",".","A","B","C">>), Str(<<"#","A",".",".","B">>), Str(<<"#","A","B","C","_">>),
           Str(<<"#","A","B","C","/","#",".","D">>), Str(<<"#","A","B","C","/","#","D","_">>),
           Str(<<"#","A","B","C","/","#","D",".","_","E">>), Str(<<"#","A","B","C","/","#","D",".","E">>),
           Str(<<"$","_","A","B","C">>), Str(<<"$","A","_",".","B">>), Str(<<"$","A","B","C",".">>) }

NameInputs == StringsUpTo(NameAlphabet, MaxNameLen) \cup NameSamples

Idle == "-"

(***************************************************************************)
(* Specification of the name validator: a name is drawn, then one of the   *)
(* two entry points is called on it.                                       *)
(***************************************************************************)
InitName ==
    /\ pc = "ready"
    /\ asset \in NameInputs
    /\ asset_type = Idle
    /\ error = Idle
    /\ args = Idle
    /\ script = Idle
    /\ info = Idle
    /\ verifier = Idle
    /\ ast = Idle
    /\ bool_dict = Idle
    /\ value = Idle

\* get_error_for_asset_name(asset); asset_type records the taxonomy the
\* name was validated under (None when rejected before classification)
CallGetErrorForAssetName ==
    /\ pc = "ready"
    /\ pc' = "named"
    /\ error' = get_error_for_asset_name(asset)
    /\ asset_type' = IF Len(asset) > MAX_ASSET_LENGTH THEN None ELSE asset_type_for_name(asset)
    /\ UNCHANGED <<asset, args, script, info, verifier, ast, bool_dict, value>>

\* get_error_for_asset_typed(asset, t)
CallGetErrorForAssetTyped(t) ==
    /\ pc = "ready"
    /\ pc' = "typed"
    /\ error' = get_error_for_asset_typed(asset, t)
    /\ asset_type' = t
    /\ UNCHANGED <<asset, args, script, info, verifier, ast, bool_dict, value>>

NextName ==
    \/ CallGetErrorForAssetName
    \/ \E t \in AssetType : CallGetErrorForAssetTyped(t)

SpecName == InitName /\ [][NextName]_vars

(***************************************************************************)
(* Claims about the name validator (checked under SpecName)                *)
(***************************************************************************)
C5_ReservedForms ==
    ReservedWords
    \cup {<<Ord("#")>> \o w : w \in ReservedWords}
    \cup {<<Ord("$")>> \o w : w \in ReservedWords}

\* C5: every reserved token T, '#'+T and '$'+T gets a non-None error from
\* get_error_for_asset_name and from get_error_for_asset_typed under every
\* taxonomy.
C5_ReservedNamesRejected ==
    (pc \in {"named", "typed"} /\ asset \in C5_ReservedForms) => error # None

\* a name with fewer than 3 characters, or a '$' / '#' marker followed by
\* fewer than 3 characters
C6_TooShort(a) ==
    \/ Len(a) < 3
    \/ (Len(a) >= 1 /\ a[1] \in {Ord("$"), Ord("#")} /\ Len(a) - 1 < 3)

\* a sub-asset name within the overall length limit whose root segment is a
\* valid root and whose later segments are single letters or digits
C6_OneCharSegments(a) ==
    LET parts == Split(a, Ord("/"))
    IN  /\ Len(parts) >= 2
        /\ Len(a) <= 31
        /\ get_error_for_asset_typed(parts[1], "ROOT") = None
        /\ \A i \in 2..Len(parts) :
               Len(parts[i]) = 1 /\ parts[i][1] \in UpperChars \cup DigitChars

\* C6: get_error_for_asset_name rejects every root, restricted and qualifier
\* name whose body has fewer than 3 characters, and accepts a sub-asset name
\* with a valid root whose later segments are only 1 character long.
C6_MinimumLengths ==
    pc = "named" =>
        /\ (C6_TooShort(asset) => error # None)
        /\ (C6_OneCharSegments(asset) => error = None)

C6_Witness == pc = "named" /\ C6_OneCharSegments(asset) /\ error = None

C7_IndicatorOrder ==
    <<"UNIQUE", "MSG_CHANNEL", "OWNER", "QUALIFIER", "SUB_QUALIFIER", "RESTRICTED">>

C7_Matches(a, t) ==
    CASE t = "UNIQUE" -> _UNIQUE_INDICATOR(a)
      [] t = "MSG_CHANNEL" -> _MSG_CHANNEL_INDICATOR(a)
      [] t = "OWNER" -> _OWNER_INDICATOR(a)
      [] t = "QUALIFIER" -> _QUALIFIER_INDICATOR(a)
      [] t = "SUB_QUALIFIER" -> _SUB_QUALIFIER_INDICATOR(a)
      [] t = "RESTRICTED" -> _RESTRICTED_INDICATOR(a)

\* the taxonomy of the first indicator, in the stated order, that matches;
\* without a match Sub when the name has a '/' and a valid root head, else Root
C7_Expected(a) ==
    LET hits == {i \in 1..6 : C7_Matches(a, C7_IndicatorOrder[i])}
    IN  IF hits # {}
        THEN C7_IndicatorOrder[CHOOSE i \in hits : \A j \in hits : i <= j]
        ELSE IF Contains(a, Ord("/")) /\ _isRootNameValid(Split(a, Ord("/"))[1])
             THEN "SUB" ELSE "ROOT"

\* C7: get_error_for_asset_name returns a value for every string; a string
\* longer than 40 characters is rejected before classification, any other is
\* validated under exactly one taxonomy: that of the first matching
\* indicator in the order Unique, MsgChannel, Owner, Qualifier,
\* SubQualifier, Restricted, else Sub or Root.
C7_Classification ==
    pc = "named" =>
        IF Len(asset) > 40
        THEN asset_type = None /\ error \notin {None, Idle}
        ELSE /\ asset_type = C7_Expected(asset)
             /\ error = get_error_for_asset_typed(asset, C7_Expected(asset))

C7_Witness == pc = "named" /\ asset_type = "SUB_QUALIFIER" /\ error = None

(***************************************************************************)
(* Verifier expression engine: BooleanExprAST                              *)
(*                                                                         *)
(* A value held in a list of the parser or in a child slot is a record     *)
(* with a kind: "node" (a BooleanExprAST), "tok" (a one-character str      *)
(* operator token), "str" (a variable name) or "none" (None).  The result  *)
(* of a call is a record of kind "value" or "raised".                      *)
(***************************************************************************)
NoChild == [kind |-> "none"]
StrChild(name) == [kind |-> "str", s |-> name]
Tok(c) == [kind |-> "tok", ch |-> c]

\* cls(op, error=err) followed by the assignments of l_chld and r_chld
Node(op, l, r, err) ==
    [kind |-> "node", op |-> op, l_chld |-> l, r_chld |-> r, _error |-> err]

ErrorNode(msg) == Node("NONE", NoChild, NoChild, msg)
VarNode(name) == Node("VAR", StrChild(name), NoChild, None)

Value(v) == [kind |-> "value", v |-> v]
Raised(exc, msg) == [kind |-> "raised", exc |-> exc, msg |-> msg]

\* item == c for a one-character str c: a node never equals a str
IsTok(item, c) == item.kind = "tok" /\ item.ch = Ord(c)

\* the character with code point c, for messages
Chr(c) == IF c \in 32..126 THEN AsciiPrintable[c - 31] ELSE "?"

NoIndex == -1

\* verifier.replace(' ', '').replace('#', '')
compress_verifier_string(v) ==
    SelectSeq(v, LAMBDA c : c # Ord(" ") /\ c # Ord("#"))

RECURSIVE BooleanExprAST_error(_)
\* BooleanExprAST.error
BooleanExprAST_error(n) ==
    IF n._error # None THEN Value(n._error)
    ELSE IF n.op = "VAR" THEN Value(None)
    ELSE
        LET childError(c) ==
                IF c.kind = "node" THEN BooleanExprAST_error(c)
                ELSE Raised("AttributeError", "'str' object has no attribute 'error'")
            l == IF n.l_chld.kind = "none" THEN Value(None) ELSE childError(n.l_chld)
        IN  IF l.kind = "raised" THEN l
            ELSE IF l.v # None THEN l
            ELSE
                LET r == IF n.r_chld.kind = "none" THEN Value(None) ELSE childError(n.r_chld)
                IN  IF r.kind = "raised" THEN r
                    ELSE IF r.v # None THEN r
                    ELSE Value(None)

RECURSIVE BooleanExprAST_evaluate(_, _)
\* BooleanExprAST.evaluate
BooleanExprAST_evaluate(n, d) ==
    IF n._error # None /\ n._error # "" THEN Raised("Exception", n._error)
    ELSE IF n.op = "AND" THEN
        IF n.l_chld.kind # "node" \/ n.r_chld.kind # "node" THEN Raised("AssertionError", "")
        ELSE LET l == BooleanExprAST_evaluate(n.l_chld, d)
             IN  IF l.kind = "raised" THEN l
                 ELSE IF ~l.v THEN l
                 ELSE BooleanExprAST_evaluate(n.r_chld, d)
    ELSE IF n.op = "OR" THEN
        IF n.l_chld.kind # "node" \/ n.r_chld.kind # "node" THEN Raised("AssertionError", "")
        ELSE LET l == BooleanExprAST_evaluate(n.l_chld, d)
             IN  IF l.kind = "raised" THEN l
                 ELSE IF l.v THEN l
                 ELSE BooleanExprAST_evaluate(n.r_chld, d)
    ELSE IF n.op = "NOT" THEN
        IF n.l_chld.kind # "node" \/ n.r_chld.kind # "none" THEN Raised("AssertionError", "")
        ELSE LET l == BooleanExprAST_evaluate(n.l_chld, d)
             IN  IF l.kind = "raised" THEN l ELSE Value(~l.v)
    ELSE IF n.op = "VAR" THEN
        IF n.l_chld.kind # "str" \/ n.r_chld.kind # "none" THEN Raised("AssertionError", "")
        ELSE IF n.l_chld.s \notin DOMAIN d THEN Raised("Exception", "Key does not exist")
        ELSE Value(d[n.l_chld.s])
    ELSE Raised("Exception", "Unknown OP")

MAX_PARSE_LENGTH == 80

\* variant of NotLoop in which a '!' sets is_not instead of toggling it
RECURSIVE NotLoop_set(_, _, _)
NotLoop_set(items, k, st) ==
    IF k > Len(items) THEN st
    ELSE
        LET item == items[k]
        IN  IF IsTok(item, "!")
            THEN NotLoop_set(items, k + 1,
                             [st EXCEPT !.all_nots_resolved = FALSE, !.is_not = TRUE])
            ELSE IF st.is_not
            THEN NotLoop_set(items, k + 1,
                             [all_nots_resolved |-> TRUE, is_not |-> FALSE,
                              out |-> Append(st.out, Node("NOT", item, NoChild, None))])
            ELSE NotLoop_set(items, k + 1,
                             [st EXCEPT !.all_nots_resolved = TRUE, !.out = Append(st.out, item)])

\* variant of NotLoop that wraps a negated operand in two NOT nodes
RECURSIVE NotLoop_twice(_, _, _)
NotLoop_twice(items, k, st) ==
    IF k > Len(items) THEN st
    ELSE
        LET item == items[k]
        IN  IF IsTok(item, "!")
            THEN NotLoop_twice(items, k + 1,
                               [st EXCEPT !.all_nots_resolved = FALSE, !.is_not = ~st.is_not])
            ELSE IF st.is_not
            THEN NotLoop_twice(items, k + 1,
                               [all_nots_resolved |-> TRUE, is_not |-> FALSE,
                                out |-> Append(st.out,
                                               Node("NOT", Node("NOT", item, NoChild, None),
                                                    NoChild, None))])
            ELSE NotLoop_twice(items, k + 1,
                               [st EXCEPT !.all_nots_resolved = TRUE,
                                          !.out = Append(st.out, item)])

\* the NOT pass: the loop over top_level_parenthesized from item k on
RECURSIVE NotLoop(_, _, _)
NotLoop(items, k, st) ==
    IF k > Len(items) THEN st
    ELSE
        LET item == items[k]
        IN  IF IsTok(item, "!")
            THEN NotLoop(items, k + 1,
                         [st EXCEPT !.all_nots_resolved = FALSE, !.is_not = ~st.is_not])
            ELSE IF st.is_not
            THEN NotLoop(items, k + 1,
                         [all_nots_resolved |-> TRUE, is_not |-> FALSE,
                          out |-> Append(st.out, Node("NOT", item, NoChild, None))])
            ELSE NotLoop(items, k + 1,
                         [st EXCEPT !.all_nots_resolved = TRUE, !.out = Append(st.out, item)])

\* the AND pass (c = "&", op = "AND") and the OR pass (c = "|", op = "OR"):
\* the loop from item k on; st.ret is the node returned from inside the loop
RECURSIVE BinaryLoop(_, _, _, _, _)
BinaryLoop(items, k, st, c, op) ==
    IF k > Len(items) \/ st.ret.kind # "none" THEN st
    ELSE
        LET item == items[k]
        IN  IF IsTok(item, c)
            THEN BinaryLoop(items, k + 1, [st EXCEPT !.looking = TRUE], c, op)
            ELSE IF st.looking
            THEN IF Len(st.out) = 0
                 THEN [st EXCEPT !.ret = ErrorNode("No left side of " \o op \o " statement")]
                 ELSE BinaryLoop(items, k + 1,
                                 [st EXCEPT !.looking = FALSE,
                                            !.out = Append(DropLast(st.out),
                                                           Node(op, st.out[Len(st.out)], item, None))],
                                 c, op)
            ELSE BinaryLoop(items, k + 1,
                            [st EXCEPT !.looking = FALSE, !.out = Append(st.out, item)], c, op)

\* the three reduction passes over the top-level items and the final return
ReduceTopLevel(top_level_parenthesized) ==
    LET n == NotLoop(top_level_parenthesized, 1,
                     [all_nots_resolved |-> TRUE, is_not |-> FALSE, out |-> <<>>])
    IN  IF ~n.all_nots_resolved THEN ErrorNode("Bad NOT placement")
        ELSE
        LET a == BinaryLoop(n.out, 1, [looking |-> FALSE, out |-> <<>>, ret |-> NoChild], "&", "AND")
        IN  IF a.ret.kind # "none" THEN a.ret
            ELSE IF a.looking THEN ErrorNode("No right side of AND statement")
            ELSE
            LET o == BinaryLoop(a.out, 1, [looking |-> FALSE, out |-> <<>>, ret |-> NoChild], "|", "OR")
            IN  IF o.ret.kind # "none" THEN o.ret
                ELSE IF o.looking THEN ErrorNode("No right side of OR statement")
                ELSE IF Len(o.out) > 1
                    THEN ErrorNode("Variables exist with no operators between them")
                ELSE IF Len(o.out) = 0 THEN Raised("IndexError", "list index out of range")
                ELSE o.out[1]

RECURSIVE parse_string(_), TokenLoop(_, _, _)

\* the tokenizing loop of parse_string from the 0-based index i on; st.ret
\* is what the loop returned or raised, of kind "none" while it runs
TokenLoop(v, i, st) ==
    IF i >= Len(v) \/ st.ret.kind # "none" THEN st
    ELSE
        LET ch == v[i + 1]
        IN  IF st.last_parenthesis_index = NoIndex /\ ch \in NameChars
            THEN TokenLoop(v, i + 1,
                    [st EXCEPT !.last_name_index = IF @ = NoIndex THEN i ELSE @])
            ELSE
            LET st1 == IF st.last_parenthesis_index = NoIndex /\ st.last_name_index # NoIndex
                       THEN [st EXCEPT
                               !.items = Append(@, VarNode(Slice(v, st.last_name_index, i))),
                               !.last_name_index = NoIndex]
                       ELSE st
                st2 == IF ch = Ord("(")
                       THEN [st1 EXCEPT
                               !.last_parenthesis_index = IF st1.l_tok = 0 THEN i ELSE @,
                               !.l_tok = @ + 1]
                       ELSE IF ch = Ord(")")
                       THEN [st1 EXCEPT !.r_tok = @ + 1]
                       ELSE st1
            IN  IF st2.l_tok = st2.r_tok /\ st2.last_parenthesis_index # NoIndex
                THEN LET sub == parse_string(Slice(v, st2.last_parenthesis_index + 1, i))
                     IN  IF sub.kind = "raised"
                         THEN [st2 EXCEPT !.ret = sub]
                         ELSE TokenLoop(v, i + 1,
                                [st2 EXCEPT !.items = Append(@, sub), !.l_tok = 0, !.r_tok = 0,
                                            !.last_parenthesis_index = NoIndex])
                ELSE IF st2.last_parenthesis_index # NoIndex
                THEN TokenLoop(v, i + 1, st2)
                ELSE IF ch \in {Ord("&"), Ord("|"), Ord("!")}
                THEN TokenLoop(v, i + 1, [st2 EXCEPT !.items = Append(@, Tok(ch))])
                ELSE [st2 EXCEPT !.ret = ErrorNode("Unable to parse token " \o Chr(ch))]

\* BooleanExprAST.parse_string
parse_string(v) ==
    IF Len(v) = 0 THEN ErrorNode("Empty string")
    ELSE IF Len(v) > MAX_PARSE_LENGTH THEN ErrorNode("Verifier is too long")
    ELSE
        LET st == TokenLoop(v, 0,
                     [last_parenthesis_index |-> NoIndex, last_name_index |-> NoIndex,
                      l_tok |-> 0, r_tok |-> 0, items |-> <<>>, ret |-> NoChild])
        IN  IF st.ret.kind # "none" THEN st.ret
            ELSE
                \* after the loop ch and i are those of the last iteration
                LET items == IF v[Len(v)] \in NameChars /\ st.last_name_index # NoIndex
                             THEN Append(st.items, VarNode(Slice(v, st.last_name_index, Len(v))))
                             ELSE st.items
                IN  ReduceTopLevel(items)

\* parse_verifier_string
parse_verifier_string(v) == parse_string(compress_verifier_string(v))

(***************************************************************************)
(* Inputs of the verifier engine                                           *)
(***************************************************************************)
MaxVerifierLen == 4

VerifierAlphabet ==
    {Ord("A"), Ord("B"), Ord("&"), Ord("|"), Ord("!"), Ord("("), Ord(")"), Ord("x")}

\* x o1 y o2 z for operands x, y, z (optionally negated) and operators o1, o2
ThreeOperandStrings ==
    LET operands == {Str(<<"A">>), Str(<<"B">>), Str(<<"!","A">>), Str(<<"!","B">>)}
        operators == {Str(<<"&">>), Str(<<"|">>)}
    IN  {x \o o1 \o y \o o2 \o z : x \in operands, y \in operands, z \in operands,
                                   o1 \in operators, o2 \in operators}

VerifierSamples ==
    ThreeOperandStrings
    \cup { Str(<<"A","&","B","|","!","C">>), Str(<<"(","A","|","B",")","&","C">>),
           Str(<<"A","|","B","&","C">>), Str(<<"A","&","(","B","|","C",")">>),
           Str(<<"!","(","A","|","B",")">>), Str(<<"!","(","A","&","B",")","|","C">>),
           Str(<<"!","!","A","&","B">>), Str(<<"(","(","A",")",")","|","B">>),
           Str(<<"(","A","|","B",")","&","(","A","|","C",")">>),
           Str(<<"A","|","B","|","C">>), Str(<<"A","&","B","&","C">>),
           Str(<<"A","B","_","1",".","C","&","B">>),
           Str(<<"A"," ","&"," ","#","B">>), Str(<<"#","A","|","#","B","|","(",")">>),
           Str(<<"A","|","(",")">>), Str(<<"(","A","|","B">>), Str(<<"A","|","B",")">>),
           Str(<<"A","&","|","B","|","C">>), Str(<<"A","(","B",")">>),
           Str(<<"a","&","b">>), Str(<<"A","\n">>), Str(<<" ">>), Str(<<"#","#">>),
           Str(<<"(","(","(","(","A",")",")",")",")">>),
           Repeat(Ord("A"), 40), Repeat(Ord("A"), 81),
           Repeat(Ord("!"), 39) \o Str(<<"A">>),
           Repeat(Ord(" "), 10) \o Str(<<"A">>) }

VerifierInputs == StringsUpTo(VerifierAlphabet, MaxVerifierLen) \cup VerifierSamples

\* the variable names of v: its maximal runs of [A-Z0-9._]
VariableNames(v) ==
    { Slice(v, a, b) : a \in 0..Len(v), b \in 0..Len(v) } \cap
    { Slice(v, a, b) : <<a, b>> \in
        { ab \in (0..Len(v)) \X (0..Len(v)) :
            /\ ab[1] < ab[2]
            /\ \A k \in (ab[1] + 1)..ab[2] : v[k] \in NameChars
            /\ (ab[1] = 0 \/ v[ab[1]] \notin NameChars)
            /\ (ab[2] = Len(v) \/ v[ab[2] + 1] \notin NameChars) } }

\* the binding maps tried on v: every partial map from its variable names
\* to booleans (a key that names no variable of v is never looked up)
BoolDicts(v) ==
    UNION {[D -> BOOLEAN] : D \in SUBSET VariableNames(compress_verifier_string(v))}

(***************************************************************************)
(* Specification of the verifier engine: a string is drawn and parsed,     *)
(* error() is called on the tree, then evaluate() with some bindings.      *)
(***************************************************************************)
InitVerifier ==
    /\ pc = "ready"
    /\ verifier \in VerifierInputs
    /\ ast = Idle
    /\ error = Idle
    /\ bool_dict = Idle
    /\ value = Idle
    /\ asset = Idle
    /\ asset_type = Idle
    /\ args = Idle
    /\ script = Idle
    /\ info = Idle

\* ast = parse_verifier_string(verifier)
CallParseVerifierString ==
    /\ pc = "ready"
    /\ pc' = "parsed"
    /\ ast' = parse_verifier_string(verifier)
    /\ UNCHANGED <<asset, asset_type, error, args, script, info, verifier, bool_dict, value>>

\* ast.error()
CallError ==
    /\ pc = "parsed"
    /\ ast.kind = "node"
    /\ pc' = "checked"
    /\ error' = BooleanExprAST_error(ast)
    /\ UNCHANGED <<asset, asset_type, args, script, info, verifier, ast, bool_dict, value>>

\* ast.evaluate(d)
CallEvaluate(d) ==
    /\ pc = "checked"
    /\ pc' = "evaluated"
    /\ bool_dict' = d
    /\ value' = BooleanExprAST_evaluate(ast, d)
    /\ UNCHANGED <<asset, asset_type, error, args, script, info, verifier, ast>>

NextVerifier ==
    \/ CallParseVerifierString
    \/ CallError
    \/ \E d \in BoolDicts(verifier) : CallEvaluate(d)

SpecVerifier == InitVerifier /\ [][NextVerifier]_vars

(***************************************************************************)
(* Claims about the verifier engine (checked under SpecVerifier)           *)
(*                                                                         *)
(* Reference semantics, written from the grammar and not from the parser:  *)
(*   expr ::= expr '|' term | term      term ::= term '&' factor | factor  *)
(*   factor ::= '!' factor | '(' expr ')' | variable                       *)
(* A reference value is "T", "F", "unbound" (a variable without a binding) *)
(* or "bad" (the text is not an expression).                               *)
(***************************************************************************)
\* number of '(' minus number of ')' in s[lo..k-1]
RefBalance(s, lo, k) ==
    Cardinality({j \in lo..(k - 1) : s[j] = Ord("(")})
        - Cardinality({j \in lo..(k - 1) : s[j] = Ord(")")})

\* positions of the character c of s[lo..hi] that lie outside every parenthesis
RefTopLevel(s, lo, hi, c) ==
    {k \in lo..hi : s[k] = c /\ RefBalance(s, lo, k) = 0
                             /\ \A j \in lo..k : RefBalance(s, lo, j) >= 0}

RefMax(S) == CHOOSE k \in S : \A j \in S : j <= k

RefNot(x) == CASE x = "T" -> "F" [] x = "F" -> "T" [] OTHER -> x

RefCombine(x, y, op) ==
    IF x = "bad" \/ y = "bad" THEN "bad"
    ELSE IF x = "unbound" \/ y = "unbound" THEN "unbound"
    ELSE IF op = "|" THEN (IF x = "T" \/ y = "T" THEN "T" ELSE "F")
    ELSE (IF x = "T" /\ y = "T" THEN "T" ELSE "F")

RECURSIVE RefExpr(_, _, _, _), RefTerm(_, _, _, _), RefFactor(_, _, _, _)
RefExpr(s, lo, hi, b) ==
    IF lo > hi THEN "bad"
    ELSE LET ks == RefTopLevel(s, lo, hi, Ord("|"))
         IN  IF ks = {} THEN RefTerm(s, lo, hi, b)
             ELSE RefCombine(RefExpr(s, lo, RefMax(ks) - 1, b),
                             RefTerm(s, RefMax(ks) + 1, hi, b), "|")

RefTerm(s, lo, hi, b) ==
    IF lo > hi THEN "bad"
    ELSE LET ks == RefTopLevel(s, lo, hi, Ord("&"))
         IN  IF ks = {} THEN RefFactor(s, lo, hi, b)
             ELSE RefCombine(RefTerm(s, lo, RefMax(ks) - 1, b),
                             RefFactor(s, RefMax(ks) + 1, hi, b), "&")

RefFactor(s, lo, hi, b) ==
    IF lo > hi THEN "bad"
    ELSE IF s[lo] = Ord("!") THEN RefNot(RefFactor(s, lo + 1, hi, b))
    ELSE IF s[lo] = Ord("(") THEN
        IF /\ s[hi] = Ord(")")
           /\ RefBalance(s, lo, hi + 1) = 0
           /\ \A j \in (lo + 1)..hi : RefBalance(s, lo, j) > 0
        THEN RefExpr(s, lo + 1, hi - 1, b)
        ELSE "bad"
    ELSE IF \A j \in lo..hi : s[j] \in NameChars
        THEN LET name == SubSeq(s, lo, hi)
             IN  IF name \in DOMAIN b THEN (IF b[name] THEN "T" ELSE "F") ELSE "unbound"
    ELSE "bad"

RefValue(s, b) == RefExpr(s, 1, Len(s), b)

\* s is an expression of the grammar
RefWellFormed(s) == RefValue(s, <<>>) # "bad"

C8_A == Str(<<"A">>)
C8_B == Str(<<"B">>)
C8_C == Str(<<"C">>)

\* C8: for a well-formed verifier string (of a length the parser accepts)
\* and bindings that give a boolean to each of its variables, error() of
\* the parsed tree is None and evaluate returns the boolean value of the
\* string under NOT > AND > OR, parentheses overriding, '&' and '|'
\* associating to the left; "A&B|!C" parses to OR(AND(A,B),NOT(C)) and is
\* true under {A:true,B:false,C:false}; "(A|B)&C" is true under
\* {A:false,B:true,C:true}.
C8_VerifierSemantics ==
    /\ (pc \in {"checked", "evaluated"} /\ RefWellFormed(verifier) /\ Len(verifier) <= 80)
           => error = Value(None)
    /\ (pc = "evaluated" /\ Len(verifier) <= 80
            /\ RefValue(verifier, bool_dict) \in {"T", "F"})
           => value = Value(RefValue(verifier, bool_dict) = "T")
    /\ (pc \in {"parsed", "checked", "evaluated"} /\ verifier = Str(<<"A","&","B","|","!","C">>))
           => ast = Node("OR",
                         Node("AND", VarNode(C8_A), VarNode(C8_B), None),
                         Node("NOT", VarNode(C8_C), NoChild, None), None)
    /\ (pc = "evaluated" /\ verifier = Str(<<"A","&","B","|","!","C">>)
            /\ DOMAIN bool_dict = {C8_A, C8_B, C8_C}
            /\ bool_dict[C8_A] /\ ~bool_dict[C8_B] /\ ~bool_dict[C8_C])
           => value = Value(TRUE)
    /\ (pc = "evaluated" /\ verifier = Str(<<"(","A","|","B",")","&","C">>)
            /\ DOMAIN bool_dict = {C8_A, C8_B, C8_C}
            /\ ~bool_dict[C8_A] /\ bool_dict[C8_B] /\ bool_dict[C8_C])
           => value = Value(TRUE)

C8_Witness ==
    /\ pc = "evaluated"
    /\ verifier = Str(<<"A","&","B","|","!","C">>)
    /\ DOMAIN bool_dict = {C8_A, C8_B, C8_C}
    /\ bool_dict[C8_A] /\ ~bool_dict[C8_B] /\ ~bool_dict[C8_C]
    /\ value = Value(TRUE)

\* the variable names at the VAR leaves of a tree
RECURSIVE C9_TreeVariables(_)
C9_TreeVariables(n) ==
    IF n.kind # "node" THEN {}
    ELSE IF n.op = "VAR" THEN {n.l_chld.s}
    ELSE C9_TreeVariables(n.l_chld) \cup C9_TreeVariables(n.r_chld)

\* C9: for an error-free parsed tree and bindings that lack a variable of
\* the expression, evaluate fails with the missing-key error and never
\* returns a boolean.
C9_UnboundVariableFails ==
    (pc = "evaluated" /\ error = Value(None)
        /\ ~(C9_TreeVariables(ast) \subseteq DOMAIN bool_dict))
    => (value.kind = "raised" /\ value.msg = "Key does not exist")

\* C10: for every input string parse_string returns a node without raising,
\* and when the input is not a well-formed expression error() of the
\* returned tree returns a non-empty message instead of raising.
C10_ParseErrorsAreData ==
    /\ pc \in {"parsed", "checked", "evaluated"} => ast.kind = "node"
    /\ (pc \in {"checked", "evaluated"} /\ ~RefWellFormed(compress_verifier_string(verifier)))
           => (error.kind = "value" /\ error.v \notin {None, ""})

(***************************************************************************)
(* Bytes, text and integers                                                *)
(***************************************************************************)
Nothing == [some |-> FALSE]
Some(x) == [some |-> TRUE, v |-> x]

Pow256(n) == IF n = 0 THEN 1 ELSE IF n = 1 THEN 256 ELSE IF n = 2 THEN 65536 ELSE 16777216

\* the n little-endian bytes of the non-negative integer i
LittleEndian(i, n) == [k \in 1..n |-> (i \div Pow256(k - 1)) % 256]

\* A 64-bit quantity is four 16-bit words, least significant first.
W64(w0, w1, w2, w3) == <<w0, w1, w2, w3>>

W64Zero == W64(0, 0, 0, 0)

\* A Python integer below zero is the four words of its magnitude followed
\* by the sign.
Minus(w) == Append(w, -1)

IsNegative(a) == Len(a) = 5

Magnitude(a) == SubSeq(a, 1, 4)

\* a < b for two magnitudes
WordsLess(a, b) ==
    \E k \in 1..4 : a[k] < b[k] /\ \A j \in (k + 1)..4 : a[j] = b[j]

\* a < b for integers
W64Less(a, b) ==
    IF IsNegative(a) /\ IsNegative(b) THEN WordsLess(Magnitude(b), Magnitude(a))
    ELSE IF IsNegative(a) THEN TRUE
    ELSE IF IsNegative(b) THEN FALSE
    ELSE WordsLess(a, b)

\* 2^64 - m for a magnitude m in 1..2^64-1
TwosComplement(m) ==
    LET s1 == (65535 - m[1]) + 1
        s2 == (65535 - m[2]) + (s1 \div 65536)
        s3 == (65535 - m[3]) + (s2 \div 65536)
        s4 == (65535 - m[4]) + (s3 \div 65536)
    IN  <<s1 % 65536, s2 % 65536, s3 % 65536, s4 % 65536>>

\* int.from_bytes(b, 'little') for 8 bytes
W64FromBytes(b) == [k \in 1..4 |-> b[2 * k - 1] + 256 * b[2 * k]]

\* str.encode(): the UTF-8 bytes of one code point
Utf8EncodeChar(c) ==
    IF c < 128 THEN <<c>>
    ELSE IF c < 2048 THEN <<192 + (c \div 64), 128 + (c % 64)>>
    ELSE IF c < 65536 THEN <<224 + (c \div 4096), 128 + ((c \div 64) % 64), 128 + (c % 64)>>
    ELSE <<240 + (c \div 262144), 128 + ((c \div 4096) % 64),
           128 + ((c \div 64) % 64), 128 + (c % 64)>>

RECURSIVE Utf8EncodeFrom(_, _)
Utf8EncodeFrom(t, k) ==
    IF k > Len(t) THEN <<>> ELSE Utf8EncodeChar(t[k]) \o Utf8EncodeFrom(t, k + 1)

\* str.encode() (no surrogate code points among the inputs)
Utf8Encode(t) == IF \A k \in DOMAIN t : t[k] < 128 THEN t ELSE Utf8EncodeFrom(t, 1)

Continuation(b, k) == k <= Len(b) /\ b[k] \in 128..191

RECURSIVE Utf8DecodeFrom(_, _, _)
\* strict UTF-8 decoding of b from position k on, acc the text so far
Utf8DecodeFrom(b, k, acc) ==
    IF k > Len(b) THEN Value(acc)
    ELSE
        LET c == b[k]
            bad == Raised("UnicodeDecodeError", "'utf-8' codec can't decode byte")
        IN  IF c < 128 THEN Utf8DecodeFrom(b, k + 1, Append(acc, c))
            ELSE IF c \in 194..223 THEN
                IF Continuation(b, k + 1)
                THEN Utf8DecodeFrom(b, k + 2, Append(acc, (c - 192) * 64 + (b[k + 1] - 128)))
                ELSE bad
            ELSE IF c \in 224..239 THEN
                IF /\ Continuation(b, k + 1) /\ Continuation(b, k + 2)
                   /\ (c = 224 => b[k + 1] >= 160)
                   /\ (c = 237 => b[k + 1] <= 159)
                THEN Utf8DecodeFrom(b, k + 3,
                        Append(acc, (c - 224) * 4096 + (b[k + 1] - 128) * 64 + (b[k + 2] - 128)))
                ELSE bad
            ELSE IF c \in 240..244 THEN
                IF /\ Continuation(b, k + 1) /\ Continuation(b, k + 2) /\ Continuation(b, k + 3)
                   /\ (c = 240 => b[k + 1] >= 144)
                   /\ (c = 244 => b[k + 1] <= 143)
                THEN Utf8DecodeFrom(b, k + 4,
                        Append(acc, (c - 240) * 262144 + (b[k + 1] - 128) * 4096
                                    + (b[k + 2] - 128) * 64 + (b[k + 3] - 128)))
                ELSE bad
            ELSE bad

\* bytes.decode()
Utf8Decode(b) == IF \A k \in DOMAIN b : b[k] < 128 THEN Value(b) ELSE Utf8DecodeFrom(b, 1, <<>>)

(***************************************************************************)
(* Script primitives of electrum/bitcoin.py, which asset.py imports        *)
(***************************************************************************)
OP_0 == 0
OP_PUSHDATA1 == 76
OP_PUSHDATA2 == 77
OP_PUSHDATA4 == 78
OP_1NEGATE == 79
OP_RESERVED == 80
OP_1 == 81
OP_DROP == 117
OP_DUP == 118
OP_EQUAL == 135
OP_EQUALVERIFY == 136
OP_HASH160 == 169
OP_CHECKSIG == 172
OP_ASSET == 192

\* COIN = 100000000
COIN == W64(57600, 1525, 0, 0)

\* int_to_hex(i, length) for length 1..3: the little-endian bytes, two's
\* complement for a negative i, OverflowError outside the range
int_to_hex(i, length) ==
    IF i < 0 - (Pow256(length) \div 2) \/ i >= Pow256(length)
    THEN Raised("OverflowError", "cannot convert int to hex")
    ELSE Value(LittleEndian(IF i < 0 THEN Pow256(length) + i ELSE i, length))

\* int_to_hex(i, 8) for i in -2^63..2^64-1: the little-endian bytes, two's
\* complement for a negative i
int_to_hex_8(i) ==
    LET w == IF IsNegative(i) THEN TwosComplement(Magnitude(i)) ELSE i
    IN  [k \in 1..8 |-> IF k % 2 = 1 THEN w[(k + 1) \div 2] % 256 ELSE w[k \div 2] \div 256]

\* _op_push(i)
_op_push(i) ==
    IF i < OP_PUSHDATA1 THEN LittleEndian(i, 1)
    ELSE IF i <= 255 THEN <<OP_PUSHDATA1>> \o LittleEndian(i, 1)
    ELSE IF i <= 65535 THEN <<OP_PUSHDATA2>> \o LittleEndian(i, 2)
    ELSE <<OP_PUSHDATA4>> \o LittleEndian(i, 3) \o <<i \div 16777216>>

\* push_script(data)
push_script(data) ==
    IF Len(data) = 0 \/ (Len(data) = 1 /\ data[1] = 0) THEN <<OP_0>>
    ELSE IF Len(data) = 1 /\ data[1] <= 16 THEN <<OP_1 - 1 + data[1]>>
    ELSE IF Len(data) = 1 /\ data[1] = 129 THEN <<OP_1NEGATE>>
    ELSE _op_push(Len(data)) \o data

\* construct_script([opcodes.OP_ASSET, asset_data, opcodes.OP_DROP])
construct_asset_script(asset_data) == <<OP_ASSET>> \o push_script(asset_data) \o <<OP_DROP>>

\* address_to_script(address): an address is its kind and its 20-byte hash
address_to_script(address) ==
    IF address.kind = "p2pkh"
    THEN <<OP_DUP, OP_HASH160, 20>> \o address.h160 \o <<OP_EQUALVERIFY, OP_CHECKSIG>>
    ELSE <<OP_HASH160, 20>> \o address.h160 \o <<OP_EQUAL>>

(***************************************************************************)
(* Script encoder                                                          *)
(***************************************************************************)
RVN_ASSET_PREFIX == Str(<<"r","v","n">>)
RVN_ASSET_TYPE_CREATE == Ord("q")
RVN_ASSET_TYPE_OWNER == Ord("o")
RVN_ASSET_TYPE_TRANSFER == Ord("t")
RVN_ASSET_TYPE_REISSUE == Ord("r")

\* DEFAULT_ASSET_AMOUNT_MAX * COIN = 21_000_000_000 * 100000000
\*   = 2100000000000000000 = 0x1D24B2DFAC520000
\* the maximum without the factor COIN: 21_000_000_000 = 0x4E3B29200
MAX_AMOUNT_units == W64(37376, 58290, 4, 0)

MAX_AMOUNT == W64(0, 44114, 45791, 7460)

\* truth value of an Optional[bytes]: None and b'' are false
Truthy(opt) == opt.some /\ Len(opt.v) > 0

\* the two flag bytes the wrong way round
FlagByte_swapped(flag) == IF flag THEN <<0>> ELSE <<1>>

\* '01' if flag else '00'
FlagByte(flag) == IF flag THEN <<1>> ELSE <<0>>

\* generate_create_script
generate_create_script(address, a, amount, divisions, reissuable, associated_data) ==
    IF get_error_for_asset_name(a) \notin {None, ""} THEN Raised("AssetException", "Bad asset")
    ELSE IF ~W64Less(W64Zero, amount) \/ W64Less(MAX_AMOUNT, amount)
        THEN Raised("AssetException", "Bad amount")
    ELSE IF divisions < 0 \/ divisions > 8 THEN Raised("AssetException", "Bad divisions")
    ELSE IF Truthy(associated_data) /\ Len(associated_data.v) # 34
        THEN Raised("AssetException", "Bad data")
    ELSE
        LET name_len == int_to_hex(Len(a), 1)
            div == int_to_hex(divisions, 1)
        IN  IF name_len.kind = "raised" THEN name_len
            ELSE IF div.kind = "raised" THEN div
            ELSE
            LET asset_data ==
                    RVN_ASSET_PREFIX \o <<RVN_ASSET_TYPE_CREATE>>
                    \o name_len.v \o Utf8Encode(a)
                    \o int_to_hex_8(amount) \o div.v
                    \o FlagByte(reissuable) \o FlagByte(Truthy(associated_data))
                    \o (IF Truthy(associated_data) THEN associated_data.v ELSE <<>>)
            IN  Value(address_to_script(address) \o construct_asset_script(asset_data))

\* generate_reissue_script
generate_reissue_script(address, a, amount, divisions, reissuable, associated_data) ==
    IF get_error_for_asset_name(a) \notin {None, ""} THEN Raised("AssetException", "Bad asset")
    ELSE IF W64Less(amount, W64Zero) \/ W64Less(MAX_AMOUNT, amount)
        THEN Raised("AssetException", "Bad amount")
    ELSE IF (divisions < 0 \/ divisions > 8) /\ divisions # 255
        THEN Raised("AssetException", "Bad divisions")
    ELSE IF Truthy(associated_data) /\ Len(associated_data.v) # 34
        THEN Raised("AssetException", "Bad data")
    ELSE
        LET name_len == int_to_hex(Len(a), 1)
            div == int_to_hex(divisions, 1)
        IN  IF name_len.kind = "raised" THEN name_len
            ELSE IF div.kind = "raised" THEN div
            ELSE
            LET asset_data ==
                    RVN_ASSET_PREFIX \o <<RVN_ASSET_TYPE_REISSUE>>
                    \o name_len.v \o Utf8Encode(a)
                    \o int_to_hex_8(amount) \o div.v
                    \o FlagByte(reissuable)
                    \o (IF Truthy(associated_data) THEN associated_data.v ELSE <<>>)
            IN  Value(address_to_script(address) \o construct_asset_script(asset_data))

\* AssetMemo.hex; a memo is [data |-> 34 bytes, timestamp |-> Optional 64-bit]
AssetMemo_hex(memo) ==
    memo.data \o (IF memo.timestamp.some /\ memo.timestamp.v # W64Zero
                  THEN int_to_hex_8(memo.timestamp.v) ELSE <<>>)

\* _asset_portion_of_transfer_script(asset, amount, memo=memo)
_asset_portion_of_transfer_script(a, amount, memo) ==
    LET name_len == int_to_hex(Len(a), 1)
    IN  IF name_len.kind = "raised" THEN name_len
        ELSE
        LET asset_data ==
                RVN_ASSET_PREFIX \o <<RVN_ASSET_TYPE_TRANSFER>>
                \o name_len.v \o Utf8Encode(a)
                \o int_to_hex_8(amount)
                \o (IF memo.some THEN AssetMemo_hex(memo.v) ELSE <<>>)
        IN  Value(construct_asset_script(asset_data))

\* generate_transfer_script_from_base
generate_transfer_script_from_base(a, amount, base_script) ==
    LET portion == _asset_portion_of_transfer_script(a, amount, Nothing)
    IN  IF portion.kind = "raised" THEN portion ELSE Value(base_script \o portion.v)

\* generate_owner_script_from_base
generate_owner_script_from_base(a, base_script) ==
    IF Len(a) = 0 THEN Raised("IndexError", "string index out of range")
    ELSE
    LET owner == IF a[Len(a)] # ASSET_OWNER_IDENTIFIER THEN Append(a, ASSET_OWNER_IDENTIFIER)
                 ELSE a
    IN  IF get_error_for_asset_name(owner) \notin {None, ""}
        THEN Raised("AssetException", "Bad asset")
        ELSE
        LET name_len == int_to_hex(Len(owner), 1)
        IN  IF name_len.kind = "raised" THEN name_len
            ELSE
            LET asset_data ==
                    RVN_ASSET_PREFIX \o <<RVN_ASSET_TYPE_OWNER>>
                    \o name_len.v \o Utf8Encode(owner)
            IN  Value(base_script \o construct_asset_script(asset_data))

\* generate_owner_script
generate_owner_script(address, a) ==
    generate_owner_script_from_base(a, address_to_script(address))

\* generate_verifier_tag: construct_script([OP_ASSET, OP_RESERVED, asset_data])
generate_verifier_tag(verifier_string) ==
    IF ~(Len(verifier_string) <= MAX_VERIFIER_STING_LENGTH) THEN Raised("AssertionError", "")
    ELSE
    LET string_len == int_to_hex(Len(verifier_string), 1)
    IN  IF string_len.kind = "raised" THEN string_len
        ELSE
        LET asset_data == string_len.v \o Utf8Encode(verifier_string)
        IN  Value(<<OP_ASSET, OP_RESERVED>> \o push_script(asset_data))

\* generate_null_tag: construct_script([OP_ASSET, h160, asset_data]); h160 is
\* the bytes its hexadecimal text stands for, two characters a byte
generate_null_tag(a, h160, flag) ==
    IF get_error_for_asset_name(a) # None
    THEN Raised("AssertionError", get_error_for_asset_name(a))
    ELSE IF 2 * Len(h160) # 40 THEN Raised("AssertionError", "")
    ELSE
    LET name_len == int_to_hex(Len(a), 1)
    IN  IF name_len.kind = "raised" THEN name_len
        ELSE
        LET asset_data == name_len.v \o Utf8Encode(a) \o FlagByte(flag)
        IN  Value(<<OP_ASSET>> \o push_script(h160) \o push_script(asset_data))

(***************************************************************************)
(* Collaborators of the decoder: transaction.script_GetOp and              *)
(* util.ByteReader                                                         *)
(***************************************************************************)
Min(a, b) == IF a <= b THEN a ELSE b

\* b[a:e] with Python's clamping of the bounds
PySlice(b, a, e) == Slice(b, Min(a, Len(b)), Min(e, Len(b)))

\* a push operation: the data is cut short when the script ends early, and
\* the offset after the operation is the one the length announced
PushOp(b, opcode, start, nSize) ==
    [ok |-> TRUE, op |-> opcode, vch |-> Some(PySlice(b, start, start + nSize)),
     index |-> start + nSize]

\* the operation of script b at 0-based offset i < Len(b); a length of
\* 65536 stands for every PUSHDATA4 length above the script sizes modelled
ScriptOpAt(b, i) ==
    LET opcode == b[i + 1]
        j == i + 1
        malformed == [ok |-> FALSE]
    IN  IF opcode > OP_PUSHDATA4 THEN [ok |-> TRUE, op |-> opcode, vch |-> Nothing, index |-> j]
        ELSE IF opcode = OP_PUSHDATA1 THEN
            IF j + 1 > Len(b) THEN malformed ELSE PushOp(b, opcode, j + 1, b[j + 1])
        ELSE IF opcode = OP_PUSHDATA2 THEN
            IF j + 2 > Len(b) THEN malformed
            ELSE PushOp(b, opcode, j + 2, b[j + 1] + 256 * b[j + 2])
        ELSE IF opcode = OP_PUSHDATA4 THEN
            IF j + 4 > Len(b) THEN malformed
            ELSE PushOp(b, opcode, j + 4,
                        IF b[j + 3] # 0 \/ b[j + 4] # 0 THEN 65536
                        ELSE b[j + 1] + 256 * b[j + 2])
        ELSE PushOp(b, opcode, j, opcode)

RECURSIVE GetOpFrom(_, _, _)
GetOpFrom(b, i, acc) ==
    IF i >= Len(b) THEN Value(acc)
    ELSE LET o == ScriptOpAt(b, i)
         IN  IF ~o.ok THEN Raised("MalformedBitcoinScript", "")
             ELSE GetOpFrom(b, o.index, Append(acc, [op |-> o.op, vch |-> o.vch, index |-> o.index]))

\* [x for x in script_GetOp(script)]: the (opcode, data, offset) triples
script_GetOp(b) == GetOpFrom(b, 0, <<>>)

\* ByteReader.can_read_amount
can_read_amount(data, ptr, amt) == ptr + amt <= Len(data)

\* ByteReader.read_bytes, where can_read_amount holds
read_bytes(data, ptr, amt) == Slice(data, ptr, ptr + amt)

(***************************************************************************)
(* Vout information                                                        *)
(***************************************************************************)
AssetVoutType == {"NONE", "TRANSFER", "CREATE", "OWNER", "REISSUE", "NULL", "VERIFIER", "FREEZE"}

NoAssetVoutInformation == [kind |-> "info", type |-> "NONE", well_formed_script |-> TRUE]

MetadataAssetVoutInformation(type_, well_formed, a, amount, divisions, reissuable, associated_data) ==
    [kind |-> "info", type |-> type_, well_formed_script |-> well_formed, asset |-> a,
     amount |-> amount, divisions |-> divisions, reissuable |-> reissuable,
     associated_data |-> associated_data]

OwnerAssetVoutInformation(well_formed, a) ==
    [kind |-> "info", type |-> "OWNER", well_formed_script |-> well_formed, asset |-> a,
     amount |-> COIN]

TransferAssetVoutInformation(well_formed, a, amount, asset_memo, asset_memo_timestamp) ==
    [kind |-> "info", type |-> "TRANSFER", well_formed_script |-> well_formed, asset |-> a,
     amount |-> amount, asset_memo |-> asset_memo,
     asset_memo_timestamp |-> asset_memo_timestamp]

NullTagAssetVoutInformation(a, h160, flag) ==
    [kind |-> "info", type |-> "NULL", well_formed_script |-> TRUE, asset |-> a,
     h160 |-> h160, flag |-> flag]

VerifierTagAssetVoutInformation(verifier_string) ==
    [kind |-> "info", type |-> "VERIFIER", well_formed_script |-> TRUE,
     verifier_string |-> verifier_string]

FreezeTagAssetVoutInformation(a, flag) ==
    [kind |-> "info", type |-> "FREEZE", well_formed_script |-> TRUE, asset |-> a, flag |-> flag]

is_tag(i) == i.type \in {"NULL", "VERIFIER", "FREEZE"}

is_transferable(i) == i.type \in {"CREATE", "OWNER", "TRANSFER", "REISSUE"}

\* is_deterministic without the transfer override for memos
is_deterministic_base(i) ==
    IF is_tag(i) THEN TRUE
    ELSE i.type \in {"TRANSFER", "OWNER", "NONE"} /\ i.well_formed_script

is_deterministic(i) ==
    IF is_tag(i) THEN TRUE
    ELSE IF i.type = "TRANSFER"
        THEN ~i.asset_memo.some /\ ~i.asset_memo_timestamp.some /\ i.well_formed_script
    ELSE i.type \in {"TRANSFER", "OWNER", "NONE"} /\ i.well_formed_script

(***************************************************************************)
(* Script decoder                                                          *)
(***************************************************************************)
\* What one pass of the loop body does: return a result (or raise), break,
\* continue, or raise the IndexError that the function catches.
Return(r) == [act |-> "return", r |-> r]
Break == [act |-> "break"]
Continue == [act |-> "continue"]
IndexError == [act |-> "IndexError"]

\* bytes.find(sub): the 0-based offset of the first occurrence, or -1
Find(b, sub) ==
    LET hits == {k \in 0..(Len(b) - Len(sub)) : Slice(b, k, k + Len(sub)) = sub}
    IN  IF hits = {} THEN -1 ELSE CHOOSE k \in hits : \A h \in hits : k <= h

\* The freeze-tag branch: decoded[i + 3][1] read as name length, name, flag
FreezeTagBranch(decoded) ==
    IF Len(decoded) < 4 THEN IndexError
    ELSE
    LET internal_data == decoded[4].vch
    IN  IF ~internal_data.some THEN Return(Raised("TypeError", "object of type NoneType has no len()"))
        ELSE
        LET data == internal_data.v
        IN  IF ~can_read_amount(data, 0, 1) THEN IndexError
            ELSE
            LET asset_length == data[1]
            IN  IF ~can_read_amount(data, 1, asset_length) THEN IndexError
                ELSE IF ~can_read_amount(data, 1 + asset_length, 1) THEN IndexError
                ELSE
                LET asset_b == read_bytes(data, 1, asset_length)
                    flag == data[2 + asset_length] # 0
                    name == Utf8Decode(asset_b)
                IN  IF name.kind = "raised" THEN Return(name)
                    ELSE Return(Value(FreezeTagAssetVoutInformation(name.v, flag)))

\* The verifier-tag branch: the first operation nested in decoded[i + 2][1]
VerifierTagBranch(decoded) ==
    IF Len(decoded) < 3 THEN IndexError
    ELSE
    LET internal_data == decoded[3].vch
    IN  IF ~internal_data.some THEN Return(Raised("TypeError", "object of type NoneType has no len()"))
        ELSE IF Len(internal_data.v) = 0 THEN Return(Raised("StopIteration", ""))
        ELSE
        LET first == ScriptOpAt(internal_data.v, 0)
        IN  IF ~first.ok THEN Return(Raised("MalformedBitcoinScript", ""))
            ELSE IF ~first.vch.some
                THEN Return(Raised("AttributeError", "NoneType object has no attribute decode"))
            ELSE
            LET verifier_string == Utf8Decode(first.vch.v)
            IN  IF verifier_string.kind = "raised" THEN Return(verifier_string)
                ELSE Return(Value(VerifierTagAssetVoutInformation(verifier_string.v)))

\* The null-tag branch: 0x14, hash, inner length, name length, name, flag
NullTagBranch(asset_portion) ==
    IF ~can_read_amount(asset_portion, 0, 1) THEN IndexError
    ELSE IF asset_portion[1] # 20 THEN Continue
    ELSE IF ~can_read_amount(asset_portion, 1, 20) THEN IndexError
    ELSE IF ~can_read_amount(asset_portion, 21, 1) THEN IndexError
    ELSE IF ~can_read_amount(asset_portion, 22, 1) THEN IndexError
    ELSE
    LET h160 == read_bytes(asset_portion, 1, 20)
        asset_name_len == asset_portion[23]
    IN  IF ~can_read_amount(asset_portion, 23, asset_name_len) THEN IndexError
        ELSE IF ~can_read_amount(asset_portion, 23 + asset_name_len, 1) THEN IndexError
        ELSE
        LET asset_bytes == read_bytes(asset_portion, 23, asset_name_len)
            flag == asset_portion[24 + asset_name_len]
            name == Utf8Decode(asset_bytes)
        IN  IF name.kind = "raised" THEN Return(name)
            ELSE Return(Value(NullTagAssetVoutInformation(name.v, h160, flag # 0)))

\* The branch taken when the marker is the first operation (i == 0)
TagBranch(decoded, asset_portion) ==
    IF Len(decoded) < 2 THEN IndexError
    ELSE IF decoded[2].op = OP_RESERVED THEN
        IF Len(decoded) < 3 THEN IndexError
        ELSE IF decoded[3].op = OP_RESERVED THEN FreezeTagBranch(decoded)
        ELSE VerifierTagBranch(decoded)
    ELSE NullTagBranch(asset_portion)

\* Create and Reissue: divisions, reissuable, then the associated data
MetadataBranch(data, n, vout_type, well_formed, a, amount) ==
    IF ~can_read_amount(data, 10 + n, 1) THEN IndexError
    ELSE IF ~can_read_amount(data, 11 + n, 1) THEN IndexError
    ELSE
    LET divisions == data[11 + n]
        reissuable == data[12 + n] = 1
    IN  IF vout_type = RVN_ASSET_TYPE_CREATE THEN
            IF ~can_read_amount(data, 12 + n, 1) THEN IndexError
            ELSE IF data[13 + n] = 1 THEN
                IF ~can_read_amount(data, 13 + n, 34) THEN IndexError
                ELSE Return(Value(MetadataAssetVoutInformation("CREATE", well_formed, a, amount,
                            divisions, reissuable, Some(read_bytes(data, 13 + n, 34)))))
            ELSE Return(Value(MetadataAssetVoutInformation("CREATE", well_formed, a, amount,
                            divisions, reissuable, Nothing)))
        ELSE
            IF can_read_amount(data, 12 + n, 34)
            THEN Return(Value(MetadataAssetVoutInformation("REISSUE", well_formed, a, amount,
                            divisions, reissuable, Some(read_bytes(data, 12 + n, 34)))))
            ELSE Return(Value(MetadataAssetVoutInformation("REISSUE", well_formed, a, amount,
                            divisions, reissuable, Nothing)))

\* Transfer: the memo and its timestamp are read when the bytes are there
TransferBranch(data, n, well_formed, a, amount) ==
    LET has_memo == can_read_amount(data, 10 + n, 34)
        has_timestamp == has_memo /\ can_read_amount(data, 44 + n, 8)
        memo == IF has_memo THEN Some(read_bytes(data, 10 + n, 34)) ELSE Nothing
        timestamp == IF has_timestamp THEN Some(W64FromBytes(read_bytes(data, 44 + n, 8)))
                     ELSE Nothing
    IN  Return(Value(TransferAssetVoutInformation(well_formed, a, amount, memo, timestamp)))

\* The reader over the bytes that follow the protocol prefix
ReadAssetData(data, well_formed) ==
    IF ~can_read_amount(data, 0, 1) THEN IndexError
    ELSE
    LET vout_type == data[1]
    IN  IF vout_type \notin {RVN_ASSET_TYPE_CREATE, RVN_ASSET_TYPE_OWNER,
                             RVN_ASSET_TYPE_TRANSFER, RVN_ASSET_TYPE_REISSUE} THEN Break
        ELSE IF ~can_read_amount(data, 1, 1) THEN IndexError
        ELSE
        LET n == data[2]
        IN  IF ~can_read_amount(data, 2, n) THEN IndexError
            ELSE
            LET name == Utf8Decode(read_bytes(data, 2, n))
            IN  IF name.kind = "raised" THEN Return(name)
                ELSE IF vout_type = RVN_ASSET_TYPE_OWNER
                    THEN Return(Value(OwnerAssetVoutInformation(well_formed, name.v)))
                ELSE IF ~can_read_amount(data, 2 + n, 8) THEN IndexError
                ELSE
                LET amount == W64FromBytes(read_bytes(data, 2 + n, 8))
                IN  IF vout_type = RVN_ASSET_TYPE_TRANSFER
                    THEN TransferBranch(data, n, well_formed, name.v, amount)
                    ELSE MetadataBranch(data, n, vout_type, well_formed, name.v, amount)

\* well_formed computed without comparing the remaining bytes
WellFormed_push(decoded, i, asset_portion) ==
    Len(decoded) > i + 1 /\ decoded[i + 2].vch.some

\* well_formed: the operation after the marker is a push, and its minimal
\* encoding followed by OP_DROP is all that remains of the script
WellFormed(decoded, i, asset_portion) ==
    LET decoded_has_good_length == Len(decoded) > i + 1
        next_op_is_a_push == decoded_has_good_length /\ decoded[i + 2].vch.some
        remaining_matches ==
            /\ next_op_is_a_push
            /\ _op_push(Len(decoded[i + 2].vch.v)) \o decoded[i + 2].vch.v \o <<OP_DROP>>
                   = asset_portion
    IN  decoded_has_good_length /\ next_op_is_a_push /\ remaining_matches

\* The branch taken when the marker is operation i > 0 (i counted from 0)
ValueBranch(decoded, i, asset_portion) ==
    LET well_formed == WellFormed(decoded, i, asset_portion)
        asset_prefix_position == Find(asset_portion, RVN_ASSET_PREFIX)
    IN  IF asset_prefix_position < 0 THEN Break
        ELSE IF Len(asset_portion) < Len(RVN_ASSET_PREFIX) + 3 THEN Break
        ELSE ReadAssetData(
                Slice(asset_portion, asset_prefix_position + Len(RVN_ASSET_PREFIX),
                      Len(asset_portion)),
                well_formed)

RECURSIVE AssetLoop(_, _, _)
\* for i, (op, _, index) in enumerate(decoded), from operation i on
AssetLoop(script_bytes, decoded, i) ==
    IF i >= Len(decoded) THEN Value(NoAssetVoutInformation)
    ELSE IF decoded[i + 1].op # OP_ASSET THEN AssetLoop(script_bytes, decoded, i + 1)
    ELSE
    LET asset_portion == PySlice(script_bytes, decoded[i + 1].index, Len(script_bytes))
        step == IF i = 0 THEN TagBranch(decoded, asset_portion)
                ELSE ValueBranch(decoded, i, asset_portion)
    IN  IF step.act = "return" THEN step.r
        ELSE IF step.act = "continue" THEN AssetLoop(script_bytes, decoded, i + 1)
        ELSE Value(NoAssetVoutInformation)

\* Python's None, returned for a script that does not disassemble
PyNone == [kind |-> "none"]

\* get_asset_info_from_script
get_asset_info_from_script(script_bytes) ==
    LET decoded == script_GetOp(script_bytes)
    IN  IF decoded.kind = "raised" THEN Value(PyNone)
        ELSE AssetLoop(script_bytes, decoded.v, 0)

(***************************************************************************)
(* The codec: a script is built by an encoder or received as bytes, and    *)
(* then decoded                                                            *)
(***************************************************************************)
MaxScriptLen == 4

\* 0xc0 marker, 0x50 filler, pushes of 0, 1 and 20 bytes, drop, a byte that
\* is no text, and PUSHDATA1
ScriptAlphabet == {OP_ASSET, OP_RESERVED, 0, 1, 20, OP_DROP, 128, OP_PUSHDATA1}

Addresses ==
    { [kind |-> "p2pkh", h160 |-> Repeat(17, 20)],
      [kind |-> "p2sh", h160 |-> Repeat(OP_ASSET, 20)] }

AmountSamples ==
    { W64Zero, W64(1, 0, 0, 0), W64(500, 0, 0, 0), COIN, MAX_AMOUNT,
      W64(1, 44114, 45791, 7460), W64(65535, 65535, 65535, 65535),
      W64(1800, 1286, 772, 258), Minus(W64(1, 0, 0, 0)), Minus(W64(0, 0, 1, 0)) }

DivisionSamples == {-1, 0, 8, 9, 254, 255, 256}

DataSamples ==
    { Nothing, Some(<<>>), Some([k \in 1..34 |-> k]), Some(Repeat(OP_DROP, 34)),
      Some(Repeat(7, 33)) }

\* names the validator accepts, of every taxonomy, and some it rejects
IssuedNames ==
    { Str(<<"F","O","O">>), Str(<<"A","B","C","/","D">>), Str(<<"A","B","C","#","r","v","n">>),
      Str(<<"A","B","C","~","c","h">>), Str(<<"A","B","C","!">>), Str(<<"#","A","B","C">>),
      Str(<<"#","A","B","C","/","#","D">>), Str(<<"$","A","B","C">>),
      Str(<<"A","B","C","\n">>), Repeat(Ord("A"), 31) \o Str(<<"#">>) \o Repeat(Ord("t"), 8),
      Str(<<"A","B">>), Str(<<"R","V","N">>), <<>> }

\* the names above, names outside ASCII and names of 255 and 256 characters
TransferNames ==
    IssuedNames \cup { <<233>>, <<233, 233>>, <<65, 8364>>, Repeat(Ord("A"), 255),
                       Repeat(Ord("A"), 256) }

BaseScripts == {address_to_script(a) : a \in Addresses} \cup {<<OP_1>>, <<>>}

IssueArgs ==
    [op : {"create", "reissue"}, address : Addresses, asset : IssuedNames,
     amount : AmountSamples, divisions : DivisionSamples, reissuable : BOOLEAN,
     associated_data : DataSamples]

TransferArgs ==
    [op : {"transfer"}, asset : TransferNames, amount : AmountSamples,
     base_script : BaseScripts]

\* complete payloads of each operation, the shortest the layout allows
CompletePayloads ==
    LET name == <<3>> \o Str(<<"F","O","O">>)
        amount == int_to_hex_8(W64(500, 0, 0, 0))
    IN  { RVN_ASSET_PREFIX \o <<RVN_ASSET_TYPE_OWNER>> \o name,
          RVN_ASSET_PREFIX \o <<RVN_ASSET_TYPE_TRANSFER>> \o name \o amount,
          RVN_ASSET_PREFIX \o <<RVN_ASSET_TYPE_REISSUE>> \o name \o amount \o <<0, 1>>,
          RVN_ASSET_PREFIX \o <<RVN_ASSET_TYPE_CREATE>> \o name \o amount \o <<0, 1, 0>>,
          RVN_ASSET_PREFIX \o <<RVN_ASSET_TYPE_CREATE>> \o name \o amount \o <<0, 1, 1>>
              \o [k \in 1..34 |-> k] }

\* a payload cut after keep bytes, at least the prefix and the discriminator
TruncatedArgs ==
    UNION { [op : {"truncated"}, base_script : BaseScripts \ {<<>>}, payload : {p},
             keep : 4..(Len(p) - 1)] : p \in CompletePayloads }

\* a value script carrying the first keep bytes of the payload as its push
TruncatedScript(a) ==
    a.base_script \o construct_asset_script(Slice(a.payload, 0, a.keep))

\* tag scripts and value scripts whose text fields are not UTF-8
ScriptSamples ==
    { <<OP_ASSET, 20>> \o Repeat(17, 20) \o <<5, 3>> \o Str(<<"F","O","O">>) \o <<1>>,
      <<OP_ASSET, 20>> \o Repeat(17, 20) \o <<3, 1, 128, 0>>,
      <<OP_ASSET, OP_RESERVED, 4, 3>> \o Str(<<"A","&","B">>),
      <<OP_ASSET, OP_RESERVED, 2, 1, 128>>,
      <<OP_ASSET, OP_RESERVED, OP_RESERVED, 5, 3>> \o Str(<<"F","O","O">>) \o <<1>>,
      <<OP_ASSET, OP_RESERVED, OP_RESERVED, 3, 1, 128, 0>>,
      <<OP_1, OP_ASSET, 6>> \o RVN_ASSET_PREFIX \o <<RVN_ASSET_TYPE_OWNER, 1, 128, OP_DROP>>,
      <<OP_ASSET, 20>> \o Repeat(17, 20) \o <<5, 3>> \o Str(<<"F","O","O">>) \o <<2>>,
      <<OP_ASSET, 20>> \o Repeat(17, 20) \o <<5, 3>> \o Str(<<"F","O","O">>) \o <<0>>,
      <<OP_ASSET, OP_RESERVED, 1, 0>>,
      <<OP_ASSET, OP_RESERVED, OP_PUSHDATA1, 76, 75>> \o Repeat(65, 75),
      <<OP_ASSET, OP_RESERVED, OP_PUSHDATA1, 77, 76>> \o Repeat(65, 76),
      <<OP_ASSET, OP_RESERVED, OP_RESERVED, 5, 3>> \o Str(<<"F","O","O">>) \o <<0>>,
      <<OP_ASSET, OP_RESERVED, OP_RESERVED, 5, 3>> \o Str(<<"F","O","O">>) \o <<2>> }

RawArgs == [op : {"raw"}, script : StringsUpTo(ScriptAlphabet, MaxScriptLen) \cup ScriptSamples]

\* transfer and reissue payloads with their optional fields
OptionalPayloads ==
    LET name == <<3>> \o Str(<<"F","O","O">>)
        amount == int_to_hex_8(W64(500, 0, 0, 0))
        digest == [k \in 1..34 |-> k]
        transfer == RVN_ASSET_PREFIX \o <<RVN_ASSET_TYPE_TRANSFER>> \o name \o amount
    IN  { transfer \o digest,
          transfer \o digest \o int_to_hex_8(W64(7, 0, 0, 0)),
          transfer \o digest \o <<7, 0, 0>>,
          RVN_ASSET_PREFIX \o <<RVN_ASSET_TYPE_REISSUE>> \o name \o amount \o <<255, 0>>
              \o digest }

\* how a payload is framed after the marker: push and drop as the encoders
\* do, with a byte appended, without the drop, or with a longer push opcode
Framings == {"intact", "append_drop", "append_zero", "nodrop", "pushdata1", "pushdata2"}

FramedArgs ==
    [op : {"framed"}, base_script : BaseScripts \ {<<>>},
     payload : CompletePayloads \cup OptionalPayloads, how : Framings]

FramedScript(a) ==
    LET p == a.payload
    IN  a.base_script \o
        CASE a.how = "intact" -> construct_asset_script(p)
          [] a.how = "append_drop" -> construct_asset_script(p) \o <<OP_DROP>>
          [] a.how = "append_zero" -> construct_asset_script(p) \o <<0>>
          [] a.how = "nodrop" -> <<OP_ASSET>> \o push_script(p)
          [] a.how = "pushdata1" -> <<OP_ASSET, OP_PUSHDATA1, Len(p)>> \o p \o <<OP_DROP>>
          [] a.how = "pushdata2" -> <<OP_ASSET, OP_PUSHDATA2, Len(p), 0>> \o p \o <<OP_DROP>>

\* transfers with a memo: a 34-byte digest and an optional timestamp
TimestampSamples ==
    { Nothing, Some(W64Zero), Some(W64(1, 0, 0, 0)), Some(W64(0, 0, 1, 0)),
      Some(W64(65535, 65535, 65535, 65535)) }

MemoArgs ==
    [op : {"transfer_memo"},
     asset : {Str(<<"F","O","O">>), Str(<<"A","B","C","/","D">>), <<233>>},
     amount : {W64Zero, W64(500, 0, 0, 0), MAX_AMOUNT, W64(65535, 65535, 65535, 65535)},
     data : {[k \in 1..34 |-> k], Repeat(OP_DROP, 34)},
     timestamp : TimestampSamples,
     base_script : BaseScripts \ {<<>>}]

\* names given to the owner encoder, with and without the owner marker
OwnerNames ==
    IssuedNames \cup
    { Str(<<"F","O","O","!">>), Str(<<"A","B","C","/","D","!">>), Str(<<"F","O","O","!","!">>),
      Str(<<"!">>), Str(<<"A","B","!">>), Str(<<"R","V","N","!">>), Repeat(Ord("A"), 30),
      Repeat(Ord("A"), 31), Repeat(Ord("A"), 30) \o Str(<<"!">>),
      Repeat(Ord("A"), 31) \o Str(<<"!">>), Repeat(Ord("A"), 28) \o Str(<<"/","B">>),
      <<233>> }

OwnerArgs == [op : {"owner"}, asset : OwnerNames, base_script : BaseScripts]

Hash160Samples == {Repeat(17, 20), [k \in 1..20 |-> k], Repeat(17, 19)}

NullTagArgs == [op : {"null_tag"}, asset : IssuedNames, h160 : Hash160Samples, flag : BOOLEAN]

VerifierStringSamples ==
    StringsUpTo({Ord("A"), Ord("&"), Ord("!")}, 2) \cup
    { Str(<<"A","&","B","|","!","C">>), Str(<<"#","A"," ","&"," ","#","B">>),
      Repeat(Ord("A"), 74), Repeat(Ord("A"), 75), Repeat(Ord("A"), 76), <<233>>,
      <<1>>, <<16>>, <<129>> }

VerifierTagArgs == [op : {"verifier_tag"}, verifier_string : VerifierStringSamples]

InitCodec ==
    /\ args \in IssueArgs \cup TransferArgs \cup TruncatedArgs \cup RawArgs
                \cup OwnerArgs \cup NullTagArgs \cup VerifierTagArgs \cup FramedArgs
                \cup MemoArgs
    /\ pc = IF args.op \in {"raw", "truncated", "framed"} THEN "encoded" ELSE "ready"
    /\ script = IF args.op = "raw" THEN args.script
                ELSE IF args.op = "truncated" THEN TruncatedScript(args)
                ELSE IF args.op = "framed" THEN FramedScript(args) ELSE Idle
    /\ value = Idle
    /\ info = Idle
    /\ asset = Idle
    /\ asset_type = Idle
    /\ error = Idle
    /\ verifier = Idle
    /\ ast = Idle
    /\ bool_dict = Idle

\* what a call of an encoder leaves: its script, or the exception it raised
Encoded(result) ==
    /\ value' = result
    /\ pc' = IF result.kind = "raised" THEN "failed" ELSE "encoded"
    /\ script' = IF result.kind = "raised" THEN script ELSE result.v
    /\ UNCHANGED <<args, info, asset, asset_type, error, verifier, ast, bool_dict>>

CallGenerateCreateScript ==
    /\ pc = "ready"
    /\ args.op = "create"
    /\ Encoded(generate_create_script(args.address, args.asset, args.amount, args.divisions,
                                      args.reissuable, args.associated_data))

CallGenerateReissueScript ==
    /\ pc = "ready"
    /\ args.op = "reissue"
    /\ Encoded(generate_reissue_script(args.address, args.asset, args.amount, args.divisions,
                                       args.reissuable, args.associated_data))

CallGenerateTransferScriptFromBase ==
    /\ pc = "ready"
    /\ args.op = "transfer"
    /\ Encoded(generate_transfer_script_from_base(args.asset, args.amount, args.base_script))

\* base_script + _asset_portion_of_transfer_script(asset, amount, memo=memo)
CallAssetPortionOfTransferScript ==
    /\ pc = "ready"
    /\ args.op = "transfer_memo"
    /\ LET portion == _asset_portion_of_transfer_script(
                          args.asset, args.amount,
                          Some([data |-> args.data, timestamp |-> args.timestamp]))
       IN  Encoded(IF portion.kind = "raised" THEN portion
                   ELSE Value(args.base_script \o portion.v))

CallGenerateOwnerScriptFromBase ==
    /\ pc = "ready"
    /\ args.op = "owner"
    /\ Encoded(generate_owner_script_from_base(args.asset, args.base_script))

CallGenerateNullTag ==
    /\ pc = "ready"
    /\ args.op = "null_tag"
    /\ Encoded(generate_null_tag(args.asset, args.h160, args.flag))

CallGenerateVerifierTag ==
    /\ pc = "ready"
    /\ args.op = "verifier_tag"
    /\ Encoded(generate_verifier_tag(args.verifier_string))

CallGetAssetInfoFromScript ==
    /\ pc = "encoded"
    /\ info' = get_asset_info_from_script(script)
    /\ pc' = "decoded"
    /\ UNCHANGED <<args, script, value, asset, asset_type, error, verifier, ast, bool_dict>>

NextCodec ==
    \/ CallGenerateCreateScript
    \/ CallGenerateReissueScript
    \/ CallGenerateTransferScriptFromBase
    \/ CallGenerateOwnerScriptFromBase
    \/ CallAssetPortionOfTransferScript
    \/ CallGenerateNullTag
    \/ CallGenerateVerifierTag
    \/ CallGetAssetInfoFromScript

SpecCodec == InitCodec /\ [][NextCodec]_vars

(***************************************************************************)
(* Claims about the codec, checked under SpecCodec                         *)
(***************************************************************************)
\* the arguments C1 speaks of: an accepted name, an amount, divisions and
\* associated data in range
C1_InRange ==
    /\ get_error_for_asset_name(args.asset) = None
    /\ ~W64Less(args.amount, IF args.op = "create" THEN W64(1, 0, 0, 0) ELSE W64Zero)
    /\ ~W64Less(MAX_AMOUNT, args.amount)
    /\ (args.divisions \in 0..8 \/ (args.op = "reissue" /\ args.divisions = 255))
    /\ (~args.associated_data.some \/ Len(args.associated_data.v) = 34)

C1_Expected ==
    Value(MetadataAssetVoutInformation(IF args.op = "create" THEN "CREATE" ELSE "REISSUE",
            TRUE, args.asset, args.amount, args.divisions, args.reissuable,
            args.associated_data))

\* C1: for arguments in range generate_create_script and
\* generate_reissue_script build a script, and decoding it yields a CREATE
\* or REISSUE result with the same name, amount, divisions, reissuable and
\* associated data (None when absent) and well_formed_script true.
C1_CreateReissueRoundTrip ==
    (args.op \in {"create", "reissue"} /\ C1_InRange) =>
        /\ pc # "failed"
        /\ (pc = "decoded" => info = C1_Expected)

C1_Witness ==
    /\ pc = "decoded"
    /\ args.op = "create"
    /\ args.asset = Str(<<"A","B","C","#","r","v","n">>)
    /\ args.amount = MAX_AMOUNT
    /\ args.divisions = 8
    /\ args.reissuable
    /\ args.associated_data = Some([k \in 1..34 |-> k])
    /\ info = C1_Expected
    /\ info.v.type = "CREATE"

\* C2: for every name and every amount, decoding the script built by
\* generate_transfer_script_from_base over a non-empty base script yields a
\* TRANSFER result with the same name and amount, no memo, no timestamp,
\* well_formed_script true and is_deterministic() true.
C2_TransferRoundTrip ==
    (pc = "decoded" /\ args.op = "transfer" /\ Len(args.base_script) > 0
        /\ ~IsNegative(args.amount)) =>
        /\ info = Value(TransferAssetVoutInformation(TRUE, args.asset, args.amount,
                                                     Nothing, Nothing))
        /\ is_deterministic(info.v)

\* C3: for every byte string whose disassembly succeeds,
\* get_asset_info_from_script returns a vout information and never raises.
C3_DecoderNeverRaises ==
    (pc = "decoded" /\ script_GetOp(script).kind = "value") =>
        /\ info.kind = "value"
        /\ info.v.kind = "info"

\* C4: a value script whose payload has the prefix and a known
\* discriminator but ends before the structure is complete decodes to
\* NoAssetVoutInformation.
C4_TruncationYieldsSentinel ==
    (pc = "decoded" /\ args.op = "truncated") => info = Value(NoAssetVoutInformation)

(***************************************************************************)
(* Further claims about the verifier engine, checked under SpecVerifier    *)
(***************************************************************************)
\* C11: whenever error() of a parsed tree is not None, evaluate fails with
\* that error message for every binding map and never returns a boolean.
C11_ErrorTreesNeverEvaluate ==
    (pc = "evaluated" /\ error.kind = "value" /\ error.v # None)
    => value = Raised("Exception", error.v)

(***************************************************************************)
(* Further claims about the encoders, checked under SpecCodec              *)
(***************************************************************************)
\* the preconditions C12 lists, by operation; associated data is present
\* when it is neither None nor empty
C12_OutOfRange ==
    \/ W64Less(args.amount, IF args.op = "create" THEN W64(1, 0, 0, 0) ELSE W64Zero)
    \/ W64Less(W64(0, 44114, 45791, 7460), args.amount)
    \/ (args.divisions \notin 0..8 /\ ~(args.op = "reissue" /\ args.divisions = 255))
    \/ (args.associated_data.some /\ Len(args.associated_data.v) \notin {0, 34})

\* C12: generate_create_script raises AssetException and returns no script
\* when amount <= 0, amount > 21e9*COIN, divisions is outside 0..8 or the
\* associated data has a length other than 34; generate_reissue_script
\* does the same but accepts amount 0 and divisions 0xFF; with an accepted
\* name nothing else is rejected.
C12_CreateReissuePreconditions ==
    (args.op \in {"create", "reissue"} /\ pc # "ready") =>
        /\ C12_OutOfRange =>
              (pc = "failed" /\ value.kind = "raised" /\ value.exc = "AssetException"
                  /\ script = Idle)
        /\ (~C12_OutOfRange /\ get_error_for_asset_name(args.asset) = None) =>
              (pc # "failed" /\ value.kind = "value")

C12_Witness ==
    /\ pc = "failed"
    /\ args.op = "reissue"
    /\ args.asset = Str(<<"F","O","O">>)
    /\ args.amount = W64Zero
    /\ args.divisions = 254
    /\ ~args.associated_data.some
    /\ value = Raised("AssetException", "Bad divisions")

\* C13: an encoder called with a name for which get_error_for_asset_name
\* returns an error (or, for Transfer, with an amount that is negative or
\* above the maximum) fails and returns no script; a script is never built
\* for a name the validator rejects.
C13_EncodersValidate ==
    (pc \in {"encoded", "decoded"}
        /\ args.op \in {"create", "reissue", "owner", "transfer", "null_tag"}) =>
        /\ get_error_for_asset_name(args.asset) = None
        /\ (args.op = "transfer" =>
               (~IsNegative(args.amount)
                   /\ ~W64Less(W64(0, 44114, 45791, 7460), args.amount)))

(***************************************************************************)
(* Further claims about the decoder, checked under SpecCodec               *)
(***************************************************************************)
\* C14: is_deterministic is true for NONE results, true for OWNER results
\* exactly when well_formed_script is true, true for TRANSFER results
\* exactly when well_formed_script is true and there is neither a memo nor
\* a timestamp, false for CREATE and REISSUE results, and true for NULL,
\* VERIFIER and FREEZE results.
C14_Deterministic ==
    (pc = "decoded" /\ info.kind = "value" /\ info.v.kind = "info") =>
        LET i == info.v
        IN  is_deterministic(i) =
                CASE i.type = "NONE" -> TRUE
                  [] i.type = "OWNER" -> i.well_formed_script
                  [] i.type = "TRANSFER" ->
                        (i.well_formed_script /\ i.asset_memo = Nothing
                            /\ i.asset_memo_timestamp = Nothing)
                  [] i.type \in {"CREATE", "REISSUE"} -> FALSE
                  [] i.type \in {"NULL", "VERIFIER", "FREEZE"} -> TRUE

\* a well-formed transfer that carries a memo is not deterministic
C14_Witness ==
    /\ pc = "decoded"
    /\ args.op = "framed"
    /\ args.how = "intact"
    /\ info.kind = "value"
    /\ info.v.type = "TRANSFER"
    /\ info.v.well_formed_script
    /\ info.v.asset_memo = Some([k \in 1..34 |-> k])
    /\ info.v.asset_memo_timestamp = Nothing
    /\ ~is_deterministic(info.v)


\* the name the owner encoder is given, without a final owner marker
C15_Base ==
    IF Len(args.asset) > 0 /\ args.asset[Len(args.asset)] = ASSET_OWNER_IDENTIFIER
    THEN SubSeq(args.asset, 1, Len(args.asset) - 1) ELSE args.asset

\* a valid Root or Sub name
C15_ValidRootSub(n) ==
    get_error_for_asset_typed(n, IF _isAssetNameASubAsset(n) THEN "SUB" ELSE "ROOT") = None

\* C15: for a valid Root/Sub name N generate_owner_script_from_base gives
\* the same script for N and for N + '!', and decoding it yields an OWNER
\* result named N + '!' with amount COIN, well_formed_script true and
\* is_deterministic() true; for an invalid name, the empty string included,
\* the encoder fails with AssetException.
C15_OwnerRoundTrip ==
    (args.op = "owner" /\ pc # "ready") =>
        IF C15_ValidRootSub(C15_Base)
        THEN /\ pc # "failed"
             /\ Value(script) = generate_owner_script_from_base(C15_Base, args.base_script)
             /\ Value(script) = generate_owner_script_from_base(
                                    Append(C15_Base, ASSET_OWNER_IDENTIFIER), args.base_script)
             /\ (pc = "decoded" /\ Len(args.base_script) > 0) =>
                    /\ info = Value(OwnerAssetVoutInformation(
                                        TRUE, Append(C15_Base, ASSET_OWNER_IDENTIFIER)))
                    /\ info.v.amount = W64(57600, 1525, 0, 0)
                    /\ is_deterministic(info.v)
        ELSE /\ pc = "failed"
             /\ value.kind = "raised"
             /\ value.exc = "AssetException"


\* the bytes after the marker the result was read from: the first
\* OP_ASSET operation of the script that is not its first operation
C16_Rest ==
    LET decoded == script_GetOp(script).v
        i == CHOOSE k \in 2..Len(decoded) :
                /\ decoded[k].op = OP_ASSET
                /\ \A j \in 2..(k - 1) : decoded[j].op # OP_ASSET
    IN  SubSeq(script, decoded[i].index + 1, Len(script))

\* a minimal push of some payload followed by one OP_DROP and nothing else
C16_Canonical(rest) ==
    /\ Len(rest) >= 2
    /\ rest[Len(rest)] = 117
    /\ \/ rest[1] <= 75 /\ Len(rest) = rest[1] + 2
       \/ rest[1] = 76 /\ Len(rest) >= 3 /\ rest[2] > 75 /\ Len(rest) = rest[2] + 3
       \/ rest[1] = 77 /\ Len(rest) >= 4 /\ rest[3] > 0
            /\ Len(rest) = rest[2] + 256 * rest[3] + 4

\* C16: for a script decoded to a CREATE, OWNER, TRANSFER or REISSUE result
\* well_formed_script is true exactly when the bytes after the marker are
\* the minimal push of the payload and one OP_DROP; a script with a byte
\* appended, without the drop, or with a longer push opcode than needed is
\* not well formed.
C16_WellFormedExact ==
    (pc = "decoded" /\ info.kind = "value" /\ info.v.kind = "info"
        /\ info.v.type \in {"CREATE", "OWNER", "TRANSFER", "REISSUE"}) =>
        /\ info.v.well_formed_script = C16_Canonical(C16_Rest)
        /\ args.op = "framed" => (info.v.well_formed_script = (args.how = "intact"))

\* a transfer pushed with OP_PUSHDATA1 although its payload is short
C16_Witness ==
    /\ pc = "decoded"
    /\ args.op = "framed"
    /\ args.how = "pushdata1"
    /\ info.kind = "value"
    /\ info.v.type = "TRANSFER"
    /\ info.v.asset = Str(<<"F","O","O">>)
    /\ ~info.v.well_formed_script
    /\ ~C16_Canonical(C16_Rest)


\* C17: decoding generate_null_tag(name, h160, flag), for a valid name and
\* a 20-byte hash, yields a NULL tag result with the same name, hash and
\* flag; decoding generate_verifier_tag(s), for a string of 0..75
\* characters, yields a VERIFIER tag result whose verifier_string is s.
C17_TagRoundTrip ==
    /\ (args.op = "null_tag" /\ pc # "ready" /\ get_error_for_asset_name(args.asset) = None
            /\ Len(args.h160) = 20) =>
            /\ pc # "failed"
            /\ pc = "decoded" =>
                    info = Value(NullTagAssetVoutInformation(args.asset, args.h160, args.flag))
    /\ (args.op = "verifier_tag" /\ pc # "ready" /\ Len(args.verifier_string) <= 75) =>
            /\ pc # "failed"
            /\ pc = "decoded" =>
                    info = Value(VerifierTagAssetVoutInformation(args.verifier_string))


(***************************************************************************)
(* Further claims about the verifier engine, checked under SpecVerifier    *)
(***************************************************************************)
RECURSIVE C18_Shape(_)
\* the shape of a tree: what each kind of node holds
C18_Shape(n) ==
    /\ n.kind = "node"
    /\ CASE n.op \in {"AND", "OR"} ->
                /\ n.l_chld.kind = "node" /\ C18_Shape(n.l_chld)
                /\ n.r_chld.kind = "node" /\ C18_Shape(n.r_chld)
         [] n.op = "NOT" ->
                /\ n.l_chld.kind = "node" /\ C18_Shape(n.l_chld)
                /\ n.r_chld = NoChild
         [] n.op = "VAR" ->
                /\ n.l_chld.kind = "str"
                /\ Len(n.l_chld.s) > 0
                /\ \A k \in 1..Len(n.l_chld.s) : n.l_chld.s[k] \in NameChars
                /\ n.r_chld = NoChild
         [] n.op = "NONE" ->
                /\ n._error \notin {None, ""}
                /\ n.l_chld = NoChild
                /\ n.r_chld = NoChild

\* C18: every tree parse_string returns has AND/OR nodes with two node
\* children, NOT nodes with one node child and no right child, VAR nodes
\* with a non-empty name over [A-Z0-9._] and no node children, and NONE
\* nodes with a non-empty message and no children; no operator token is
\* stored as a child.
C18_ASTShape ==
    (pc \in {"parsed", "checked", "evaluated"} /\ ast.kind = "node") => C18_Shape(ast)


\* some '!' of v is not followed by an operand, or some '&' or '|' of v
\* lacks an operand on its left or on its right
C19_Dangling(v) ==
    \E k \in 1..Len(v) :
        LET starts_operand == k < Len(v) /\ v[k + 1] \in NameChars \cup {Ord("("), Ord("!")}
            ends_operand == k > 1 /\ v[k - 1] \in NameChars \cup {Ord(")")}
        IN  \/ v[k] = Ord("!") /\ ~starts_operand
            \/ v[k] \in {Ord("&"), Ord("|")} /\ ~(ends_operand /\ starts_operand)

\* C19: for a verifier string with a dangling '!', '&' or '|', error() of
\* the parsed tree is a non-empty message.
C19_DanglingOperatorsFail ==
    (pc \in {"checked", "evaluated"} /\ C19_Dangling(compress_verifier_string(verifier)))
        => (error.kind = "value" /\ error.v \notin {None, ""})


(***************************************************************************)
(* Further claims about the name validator, checked under SpecName         *)
(***************************************************************************)
\* asset is L#T for a valid Root or Sub name L and a non-empty tag T over
\* the unique-tag characters
C20_UniqueForm ==
    LET parts == Split(asset, _UNIQUE_TAG_DELIMITER)
    IN  /\ Len(parts) = 2
        /\ get_error_for_asset_typed(
               parts[1], IF _isAssetNameASubAsset(parts[1]) THEN "SUB" ELSE "ROOT") = None
        /\ Len(parts[2]) > 0
        /\ \A k \in 1..Len(parts[2]) : parts[2][k] \in UniqueTagChars

\* C20: a name L#T, with L a valid Root/Sub name and T a non-empty tag over
\* the unique-tag characters, is accepted by get_error_for_asset_name
\* exactly when its length is at most 40.
C20_UniqueLength ==
    (pc = "named" /\ C20_UniqueForm) => ((error = None) <=> (Len(asset) <= 40))


\* a body that begins or ends with '.' or '_' or holds two of them in a row
C21_BadBody(b) ==
    /\ Len(b) > 0
    /\ \/ b[1] \in PunctChars
       \/ b[Len(b)] \in PunctChars
       \/ \E i \in 1..(Len(b) - 1) : b[i] \in PunctChars /\ b[i + 1] \in PunctChars

\* the taxonomy of a marker-prefixed name with a banned punctuation in one
\* of its bodies: '#body', '#body/#body2' or '$body' (None for other names)
C21_BannedForm ==
    LET parts == Split(asset, _SUB_NAME_DELIMITER)
        body(p) == SubSeq(p, 2, Len(p))
        marked(p, m) == Len(p) >= 2 /\ p[1] = m
    IN  IF Len(parts) = 1 /\ marked(asset, Ord("#")) /\ C21_BadBody(body(asset))
            THEN "QUALIFIER"
        ELSE IF Len(parts) = 2 /\ marked(parts[1], Ord("#")) /\ marked(parts[2], Ord("#"))
                /\ (C21_BadBody(body(parts[1])) \/ C21_BadBody(body(parts[2])))
            THEN "SUB_QUALIFIER"
        ELSE IF Len(parts) = 1 /\ marked(asset, Ord("$")) /\ C21_BadBody(body(asset))
            THEN "RESTRICTED"
        ELSE None

\* C21: get_error_for_asset_name and get_error_for_asset_typed reject every
\* Qualifier, SubQualifier and Restricted name in which a body begins with
\* '.' or '_' right after its marker, ends with '.' or '_', or contains two
\* consecutive characters from {'.', '_'}.
C21_PunctuationBans ==
    /\ (pc = "named" /\ C21_BannedForm # None) => error # None
    /\ (pc = "typed" /\ C21_BannedForm # None /\ asset_type = C21_BannedForm) => error # None


\* C22: get_error_for_asset_typed(name, AssetType.OWNER) returns None only
\* if name ends with '!' and the name without that '!' is a valid Root/Sub
\* name.
C22_OwnerRequiresMarker ==
    (pc = "typed" /\ asset_type = "OWNER" /\ error = None) =>
        /\ Len(asset) > 0
        /\ asset[Len(asset)] = ASSET_OWNER_IDENTIFIER
        /\ LET n == SubSeq(asset, 1, Len(asset) - 1)
           IN  get_error_for_asset_typed(
                   n, IF _isAssetNameASubAsset(n) THEN "SUB" ELSE "ROOT") = None


(***************************************************************************)
(* Tag dispatch, checked under SpecCodec                                   *)
(***************************************************************************)
\* data is one length byte followed by exactly that many ASCII bytes and
\* then `extra` more bytes
C23_LengthPrefixed(data, extra) ==
    /\ Len(data) >= 1
    /\ Len(data) = 1 + data[1] + extra
    /\ \A k \in 2..(1 + data[1]) : data[k] < 128

\* C23: for a script whose first operation is the marker, two filler
\* opcodes followed by a push of a length-prefixed name and a flag byte
\* give a FREEZE tag, one filler opcode followed by a push of a
\* length-prefixed string gives a VERIFIER tag carrying that string, and a
\* NULL tag is produced only without a filler opcode, when the byte after
\* the marker is 0x14 and a 20-byte hash, an inner length byte, a
\* length-prefixed name and a flag byte follow; the decoded flag is true
\* exactly when the flag byte is not zero.
C23_TagDispatch ==
    (pc = "decoded" /\ script_GetOp(script).kind = "value"
        /\ Len(script) > 0 /\ script[1] = 192) =>
        LET decoded == script_GetOp(script).v
            filler(k) == Len(decoded) >= k /\ decoded[k].op = 80
            push(k) == Len(decoded) >= k /\ decoded[k].vch.some
        IN  /\ (filler(2) /\ filler(3) /\ push(4)
                    /\ C23_LengthPrefixed(decoded[4].vch.v, 1)) =>
                LET data == decoded[4].vch.v
                IN  info = Value(FreezeTagAssetVoutInformation(
                                    SubSeq(data, 2, 1 + data[1]), data[Len(data)] # 0))
            /\ (filler(2) /\ push(3) /\ C23_LengthPrefixed(decoded[3].vch.v, 0)) =>
                LET data == decoded[3].vch.v
                IN  info = Value(VerifierTagAssetVoutInformation(SubSeq(data, 2, Len(data))))
            /\ (info.kind = "value" /\ info.v.kind = "info" /\ info.v.type = "NULL") =>
                /\ ~filler(2)
                /\ Len(script) >= 25
                /\ script[2] = 20
                /\ Len(script) >= 25 + script[24]
                /\ info.v.h160 = SubSeq(script, 3, 22)
                /\ Utf8Decode(SubSeq(script, 25, 24 + script[24])) = Value(info.v.asset)
                /\ info.v.flag = (script[25 + script[24]] # 0)


\* C24: decoding base_script + _asset_portion_of_transfer_script(name,
\* amount, memo=AssetMemo(digest, timestamp)) yields a TRANSFER result with
\* the same name and amount, the digest as asset_memo, the given timestamp
\* as asset_memo_timestamp (None exactly when none was given),
\* well_formed_script true and is_deterministic() false.
C24_MemoRoundTrip ==
    (args.op = "transfer_memo" /\ pc # "ready") =>
        /\ pc # "failed"
        /\ pc = "decoded" =>
            /\ info = Value(TransferAssetVoutInformation(
                                TRUE, args.asset, args.amount, Some(args.data), args.timestamp))
            /\ ~is_deterministic(info.v)


(***************************************************************************)
(* Root/Sub grammar, checked under SpecName                                *)
(***************************************************************************)
\* the Root/Sub grammar as the specification words it
C25_Grammar(name) ==
    LET parts == Split(name, _SUB_NAME_DELIMITER)
        clean(p) ==
            /\ p[1] \notin PunctChars
            /\ p[Len(p)] \notin PunctChars
            /\ \A i \in 1..(Len(p) - 1) : ~(p[i] \in PunctChars /\ p[i + 1] \in PunctChars)
    IN  /\ Len(name) <= 31
        /\ Len(parts[1]) >= 3
        /\ \A i \in 2..Len(parts) : Len(parts[i]) >= 1
        /\ \A i \in 1..Len(parts) : clean(parts[i])
        /\ name \notin ReservedWords

\* C25: for a string over [A-Z0-9._/] get_error_for_asset_name returns None
\* exactly when the length is at most 31, the first segment has at least 3
\* characters, every later segment at least 1, no segment begins or ends
\* with '.' or '_' or holds two of them in a row, and the full name is not
\* a reserved word.
C25_RootSubExact ==
    (pc = "named" /\ Range(asset) \subseteq NameChars \cup {_SUB_NAME_DELIMITER}) =>
        ((error = None) <=> C25_Grammar(asset))


(***************************************************************************)
(* Nesting of the parser, checked under SpecVerifier                       *)
(***************************************************************************)
RECURSIVE C26_Scan(_, _, _, _, _)
\* the substrings parse_string(v) calls itself on, in order: the parenthesis
\* bookkeeping of its tokenizing loop from the 0-based index i on
C26_Scan(v, i, last_parenthesis_index, l_tok, r_tok) ==
    IF i >= Len(v) THEN <<>>
    ELSE
        LET ch == v[i + 1]
        IN  IF last_parenthesis_index = NoIndex /\ ch \in NameChars
            THEN C26_Scan(v, i + 1, last_parenthesis_index, l_tok, r_tok)
            ELSE
            LET lpi == IF ch = Ord("(") /\ l_tok = 0 THEN i ELSE last_parenthesis_index
                l == IF ch = Ord("(") THEN l_tok + 1 ELSE l_tok
                r == IF ch = Ord(")") THEN r_tok + 1 ELSE r_tok
            IN  IF l = r /\ lpi # NoIndex
                THEN <<Slice(v, lpi + 1, i)>> \o C26_Scan(v, i + 1, NoIndex, 0, 0)
                ELSE IF lpi # NoIndex THEN C26_Scan(v, i + 1, lpi, l, r)
                ELSE IF ch \in {Ord("&"), Ord("|"), Ord("!")} THEN C26_Scan(v, i + 1, lpi, l, r)
                ELSE <<>>

\* the recursive calls of parse_string(v)
C26_Calls(v) ==
    IF Len(v) = 0 \/ Len(v) > 80 THEN <<>> ELSE C26_Scan(v, 0, NoIndex, 0, 0)

C26_Max(S) == IF S = {} THEN 0 ELSE CHOOSE m \in S : \A x \in S : x <= m

RECURSIVE C26_CallDepth(_)
\* the depth of the recursion of parse_string(v), the first call counted
C26_CallDepth(v) ==
    1 + C26_Max({C26_CallDepth(C26_Calls(v)[k]) : k \in DOMAIN C26_Calls(v)})

RECURSIVE C26_Shrinks(_)
\* every recursive call, at every depth, is on a string 2 or more shorter
C26_Shrinks(v) ==
    \A k \in DOMAIN C26_Calls(v) :
        Len(C26_Calls(v)[k]) + 2 <= Len(v) /\ C26_Shrinks(C26_Calls(v)[k])

RECURSIVE C26_TreeDepth(_)
\* the depth of a tree, which error() and evaluate() descend
C26_TreeDepth(n) ==
    IF n.kind # "node" THEN 0
    ELSE 1 + C26_Max({C26_TreeDepth(n.l_chld), C26_TreeDepth(n.r_chld)})

\* C26: every recursive call of parse_string is on a substring at least 2
\* characters shorter than its caller's input, so the recursion depth and
\* the depth of the returned tree are at most half the length plus one, 41
\* for the accepted lengths 1..80; error() and evaluate() on the tree end
\* with a result.
C26_BoundedNesting ==
    (pc \in {"parsed", "checked", "evaluated"}) =>
        LET v == compress_verifier_string(verifier)
            bound == IF Len(v) <= 80 THEN Len(v) \div 2 + 1 ELSE 1
        IN  /\ C26_Shrinks(v)
            /\ C26_CallDepth(v) <= bound
            /\ ast.kind = "node" => C26_TreeDepth(ast) <= bound
            /\ bound <= 41
            /\ pc \in {"checked", "evaluated"} => error.kind \in {"value", "raised"}
            /\ pc = "evaluated" => value.kind \in {"value", "raised"}

\* four nested groups: five calls deep on nine characters
C26_Witness ==
    /\ pc = "evaluated"
    /\ verifier = Str(<<"(","(","(","(","A",")",")",")",")">>)
    /\ C26_CallDepth(verifier) = 5
    /\ C26_TreeDepth(ast) = 1
    /\ value.kind = "value"


\* the number of c among the first k characters of v
C27_Count(v, c, k) == Cardinality({i \in 1..k : v[i] = c})

\* the parentheses of v do not match: some prefix closes more groups than
\* it opens, or the whole string opens more than it closes
C27_Unbalanced(v) ==
    \/ \E k \in 1..Len(v) : C27_Count(v, Ord(")"), k) > C27_Count(v, Ord("("), k)
    \/ C27_Count(v, Ord("("), Len(v)) # C27_Count(v, Ord(")"), Len(v))

\* C27: for a verifier string with unbalanced parentheses error() of the
\* parsed tree is a non-empty message, and every variable of the input of
\* an error-free parse result is a VAR leaf of the tree.
C27_UnbalancedRejected ==
    (pc \in {"checked", "evaluated"}) =>
        LET v == compress_verifier_string(verifier)
        IN  /\ C27_Unbalanced(v) => (error.kind = "value" /\ error.v \notin {None, ""})
            /\ error = Value(None) => VariableNames(v) \subseteq C9_TreeVariables(ast)


(***************************************************************************)
(* Taxonomy indicators, checked under SpecName                             *)
(***************************************************************************)
\* the indicator patterns that match the name
C28_Matching ==
    {t \in {"UNIQUE", "MSG_CHANNEL", "OWNER", "QUALIFIER", "SUB_QUALIFIER", "RESTRICTED"} :
        CASE t = "UNIQUE" -> _UNIQUE_INDICATOR(asset)
          [] t = "MSG_CHANNEL" -> _MSG_CHANNEL_INDICATOR(asset)
          [] t = "OWNER" -> _OWNER_INDICATOR(asset)
          [] t = "QUALIFIER" -> _QUALIFIER_INDICATOR(asset)
          [] t = "SUB_QUALIFIER" -> _SUB_QUALIFIER_INDICATOR(asset)
          [] t = "RESTRICTED" -> _RESTRICTED_INDICATOR(asset)}

\* C28: no name matches more than one of the six indicator patterns, so
\* the taxonomy get_error_for_asset_name validates a name under is that of
\* the one pattern it matches, whatever the order of the tests.
C28_IndicatorsExclusive ==
    (pc = "named") =>
        /\ Cardinality(C28_Matching) <= 1
        /\ (asset_type # None /\ C28_Matching # {}) => C28_Matching = {asset_type}
        /\ (asset_type # None /\ C28_Matching = {}) => asset_type \in {"ROOT", "SUB"}

\* a name that matches the Unique indicator and no other
C28_Witness ==
    /\ pc = "named"
    /\ asset = Str(<<"A","B","C","#","t","a","g">>)
    /\ C28_Matching = {"UNIQUE"}
    /\ asset_type = "UNIQUE"

====
